---- MODULE Spec2Model ----
(***************************************************************************)
(* Discovery-driven query validation layer (xcono/views).                  *)
(*                                                                         *)
(*   - DiscoveryCache: the in-memory TTL cache of discovery.ts             *)
(*   - discoverTableMetadata / listAvailableTables / clearDiscoveryCache   *)
(*   - the preflight validator of validator.ts                             *)
(*                                                                         *)
(* Strings are sequences of one-character strings, so that substring       *)
(* tests, regular expressions and key formatting are computed, not assumed.*)
(***************************************************************************)
EXTENDS Integers, Sequences, FiniteSets, TLC

VARIABLES
    now,          \* Date.now(), in abstract ticks
    cache,        \* DiscoveryCache.cache: the Map, as its entries in insertion order
    lastGet,      \* harness: the key and result of the direct cache.get just made
    bound,        \* harness: key -> the value and time of its last set still standing
    insertedAt,   \* harness: key -> sequence number of the set that inserted it (0: never)
    nsets,        \* harness: number of direct cache.set calls so far
    pure,         \* harness: the history since the cache was empty is sets of distinct keys only
    pc,           \* per call slot: "idle", "awaiting" (Promise.all pending) or "listing"
    call,         \* per call slot: the arguments of the call in flight
    results,      \* per call slot: the six sub-fetch promises, in declared order
    order,        \* per call slot: the awaited sub-fetches in the order they settled
    lastRet,      \* the call that returned in the step just taken, and its result
    stale,        \* harness: the call slots that were awaiting when the cache was last cleared
    request,      \* validator: the validateQueryConfig call, and what discovery resolves to
    validation,   \* validator: what validateQueryConfig resolved to
    args,         \* helper functions: the function applied and its arguments
    ret,          \* helper functions: what the function returned
    backend,      \* query runner: the query-execution calls the executors sent to the backend
    runResult,    \* query runner: what QueryRunner.execute resolved to
    log,          \* query runner: the records written with console.debug, in order
    startTime,    \* query runner: Date.now() when QueryRunner.execute was called
    history,      \* harness: the validateQueryConfig calls that resolved, oldest first
    batch         \* validator: the validateQueryConfigs call and its validations

cacheVars == <<lastGet, bound, insertedAt, nsets, pure>>

discVars == <<pc, call, results, order, lastRet, stale>>

valVars == <<request, validation>>

pureVars == <<args, ret>>

runVars == <<backend, runResult, log, startTime, history, batch>>

vars == <<now, cache, cacheVars, discVars, valVars, pureVars, runVars>>

----------------------------------------------------------------------------
(* Bounds of the model *)

\* Date.now() runs from 0 to MaxTime ticks.
MaxTime == 2
\* Number of entries the scaled cache holds (the source holds 100).
MaxEntries == 2
\* Number of ticks an entry stays fresh (the source: 5 minutes in ms).
TtlTicks == 1
\* Number of direct cache.set calls of the cache harness.
MaxSets == 3

----------------------------------------------------------------------------
(* Strings *)

EmptyString == <<>>

\* JavaScript truthiness of a string: only "" is falsy.
TruthyString(s) == s # EmptyString

LowerLetters ==
    <<"a","b","c","d","e","f","g","h","i","j","k","l","m",
      "n","o","p","q","r","s","t","u","v","w","x","y","z">>

UpperLetters ==
    <<"A","B","C","D","E","F","G","H","I","J","K","L","M",
      "N","O","P","Q","R","S","T","U","V","W","X","Y","Z">>

DigitChars == {"0","1","2","3","4","5","6","7","8","9"}

Range(f) == { f[i] : i \in DOMAIN f }

IsLower(c) == c \in Range(LowerLetters)
IsUpper(c) == c \in Range(UpperLetters)
IsDigit(c) == c \in DigitChars

----------------------------------------------------------------------------
(* DiscoveryCache *)

DISCOVERY_CACHE_TTL_MS == TtlTicks
DISCOVERY_CACHE_MAX_SIZE == MaxEntries

\* get returns null for an absent or expired entry.
Null == [null |-> TRUE]

\* Map.has / Map.get / Map.delete / Map.set / Map.keys().next().value on the
\* insertion-ordered entry list. Map.set on a present key keeps its position.
MapHas(m, k) == \E i \in 1..Len(m) : m[i].key = k

MapIndex(m, k) == CHOOSE i \in 1..Len(m) : m[i].key = k

MapDelete(m, k) == SelectSeq(m, LAMBDA e : e.key # k)

MapSet(m, k, e) ==
    IF MapHas(m, k)
    THEN [m EXCEPT ![MapIndex(m, k)] = e]
    ELSE Append(m, e)

MapKeys(m) == { m[i].key : i \in 1..Len(m) }

CacheEntry(k, data, timestamp) == [key |-> k, data |-> data, timestamp |-> timestamp]

\* Variant of get that expires an entry already at age TTL (>= for >).
DiscoveryCache_get_ExpiresAtTtl(m, k, t) ==
    IF ~MapHas(m, k)
    THEN [value |-> Null, cache |-> m]
    ELSE LET entry == m[MapIndex(m, k)]
         IN IF t - entry.timestamp >= DISCOVERY_CACHE_TTL_MS
            THEN [value |-> Null, cache |-> MapDelete(m, k)]
            ELSE [value |-> entry.data, cache |-> m]

\* get(key) at time t: the value returned and the map afterwards.
DiscoveryCache_get(m, k, t) ==
    IF ~MapHas(m, k)
    THEN [value |-> Null, cache |-> m]
    ELSE LET entry == m[MapIndex(m, k)]
         IN IF t - entry.timestamp > DISCOVERY_CACHE_TTL_MS
            THEN [value |-> Null, cache |-> MapDelete(m, k)]
            ELSE [value |-> entry.data, cache |-> m]

\* Variant of set that evicts only above the limit (> for >=).
DiscoveryCache_set_EvictsLate(m, k, data, t) ==
    LET evicted ==
            IF Len(m) > DISCOVERY_CACHE_MAX_SIZE
            THEN MapDelete(m, m[1].key)
            ELSE m
    IN MapSet(evicted, k, CacheEntry(k, data, t))

\* set(key, data) at time t: the map afterwards.
DiscoveryCache_set(m, k, data, t) ==
    LET evicted ==
            IF Len(m) >= DISCOVERY_CACHE_MAX_SIZE
            THEN LET oldestKey == m[1].key
                 IN IF Len(m) > 0 /\ TruthyString(oldestKey)
                    THEN MapDelete(m, oldestKey)
                    ELSE m
            ELSE m
    IN MapSet(evicted, k, CacheEntry(k, data, t))

DiscoveryCache_clear(m) == <<>>

----------------------------------------------------------------------------
(* Cache keys and the names they are built from *)

Chars_table_metadata ==
    <<"t","a","b","l","e","_","m","e","t","a","d","a","t","a">>

Chars_available_tables ==
    <<"a","v","a","i","l","a","b","l","e","_","t","a","b","l","e","s">>

Colon == <<":">>

\* `table_metadata:${schemaName}:${tableName}`
TableCacheKey(schemaName, tableName) ==
    Chars_table_metadata \o Colon \o schemaName \o Colon \o tableName

\* `available_tables:${schemaName}`
ListCacheKey(schemaName) == Chars_available_tables \o Colon \o schemaName

Schema_public == <<"p","u","b","l","i","c">>

\* Table names the callers pass: allowed ones and ones the allow-list rejects
\* (the empty name, a leading digit, a dash, a statement separator).
AllowedNames == { <<"t">>, <<"t","1">>, <<"_","T">> }

RejectedNames == { EmptyString, <<"1","t">>, <<"t","-">>, <<"t",";","x">> }

TableNames == AllowedNames \cup RejectedNames

SchemaNames == { Schema_public }

\* The keys discovery.ts stores under.
CacheKeys ==
    { TableCacheKey(s, n) : s \in SchemaNames, n \in AllowedNames }
        \cup { ListCacheKey(s) : s \in SchemaNames }

----------------------------------------------------------------------------
(* Discovery results and backend answers *)

Ok(data) == [success |-> TRUE, data |-> data]

Failure(type, message, details) ==
    [success |-> FALSE,
     error |-> [type |-> type, message |-> message, details |-> details]]

\* A promise that has not settled.
Pending == [pending |-> TRUE]

NoRet == [none |-> TRUE]
NoCall == [none |-> TRUE]
NoGet == [none |-> TRUE]
NoBinding == [unbound |-> TRUE]
NoRequest == [none |-> TRUE]
NoValidation == [none |-> TRUE]

\* What a PostgREST query resolves to, { data, error }, or that it threw.
AnswerError == [kind |-> "error"]
AnswerThrow == [kind |-> "throw"]
AnswerNoData == [kind |-> "nodata"]
AnswerData(d) == [kind |-> "data", data |-> d]

Procs == { "p1", "p2" }

\* The pattern without its end anchor: /^[a-zA-Z_][a-zA-Z0-9_]*/
PatternTest_Unanchored(s) ==
    /\ Len(s) >= 1
    /\ IsLower(s[1]) \/ IsUpper(s[1]) \/ s[1] = "_"

\* ALLOWED_TABLE_PATTERNS = [/^[a-zA-Z_][a-zA-Z0-9_]*$/]
PatternTest(s) ==
    /\ Len(s) >= 1
    /\ IsLower(s[1]) \/ IsUpper(s[1]) \/ s[1] = "_"
    /\ \A i \in 2..Len(s) :
          IsLower(s[i]) \/ IsUpper(s[i]) \/ IsDigit(s[i]) \/ s[i] = "_"

isTableAllowed(tableName) ==
    IF ~TruthyString(tableName) THEN FALSE ELSE PatternTest(tableName)

Details(tableName, schemaName) ==
    [tableName |-> tableName, schemaName |-> schemaName]

\* The sub-fetches of Promise.all, in declared order.
TableTypeFetch == 1
ColumnsFetch == 2
ConstraintsFetch == 3
IndexesFetch == 4
PoliciesFetch == 5
RlsFetch == 6

SubFetches == TableTypeFetch..RlsFetch

\* The column rows the backend may answer with.
SampleColumns == <<[column_name |-> <<"i","d">>, data_type |-> <<"u","u","i","d">>]>>

\* Answers to the information_schema.tables query of getTableType.
TableTypeAnswers ==
    { AnswerError, AnswerThrow, AnswerNoData,
      AnswerData([table_type |-> "BASE TABLE"]), AnswerData([table_type |-> "VIEW"]) }

\* Answers to the information_schema.columns query of getColumnMetadata.
ColumnsAnswers ==
    { AnswerError, AnswerThrow, AnswerNoData, AnswerData(SampleColumns) }

\* Answers to the information_schema.tables query of listAvailableTables:
\* rows of table_name, some of which the allow-list rejects.
ListAnswers ==
    { AnswerError, AnswerThrow, AnswerNoData,
      AnswerData(<< <<"t">>, <<"t","-">>, <<"_","T">> >>) }

\* getTableType, given what its query resolved to.
getTableType(answer, tableName, schemaName) ==
    CASE answer.kind = "throw" ->
            Failure("transport", "Network error while getting table type",
                    Details(tableName, schemaName))
      [] answer.kind = "error" ->
            Failure("server", "Failed to get table type",
                    Details(tableName, schemaName))
      [] answer.kind = "nodata" ->
            Failure("config", "Table or view not found",
                    Details(tableName, schemaName))
      [] answer.kind = "data" -> Ok(answer.data.table_type)

\* getColumnMetadata, given what its query resolved to.
getColumnMetadata(answer, tableName, schemaName) ==
    CASE answer.kind = "throw" ->
            Failure("transport", "Network error while fetching column metadata",
                    Details(tableName, schemaName))
      [] answer.kind = "error" ->
            Failure("server", "Failed to fetch column metadata",
                    Details(tableName, schemaName))
      [] answer.kind = "nodata" -> Ok(<<>>)
      [] answer.kind = "data" -> Ok(answer.data)

\* getConstraintMetadata: supabase.getClient() inside try, then a fixed answer.
getConstraintMetadata(clientThrows, tableName, schemaName) ==
    IF clientThrows
    THEN Failure("transport", "Network error while fetching constraint metadata",
                 Details(tableName, schemaName))
    ELSE Ok(<<>>)

getIndexMetadata == Ok(<<>>)

getPolicyMetadata == Ok(<<>>)

isRlsEnabled == Ok(FALSE)

\* The six promises as Promise.all receives them: the two sub-fetches that
\* query the backend are pending unless supabase.getClient() threw, the
\* other four have settled.
IssuedResults(clientThrows, tableName, schemaName) ==
    << IF clientThrows
       THEN getTableType(AnswerThrow, tableName, schemaName) ELSE Pending,
       IF clientThrows
       THEN getColumnMetadata(AnswerThrow, tableName, schemaName) ELSE Pending,
       getConstraintMetadata(clientThrows, tableName, schemaName),
       getIndexMetadata,
       getPolicyMetadata,
       isRlsEnabled >>

Settled(rs) == \A i \in DOMAIN rs : rs[i] # Pending

\* failures = [...].filter(result => !result.success)
FailuresOf(rs) == SelectSeq(rs, LAMBDA r : ~r.success)

TableMetadata(tableName, rs) ==
    [table_name |-> tableName,
     table_type |-> rs[TableTypeFetch].data,
     columns |-> rs[ColumnsFetch].data,
     constraints |-> rs[ConstraintsFetch].data,
     indexes |-> rs[IndexesFetch].data,
     policies |-> rs[PoliciesFetch].data,
     has_rls_enabled |-> rs[RlsFetch].data]

\* A variant that stores the entry again on a hit, renewing its timestamp.
DiscoverEntry_RefreshesOnHit(m, tableName, schemaName, t) ==
    IF ~isTableAllowed(tableName)
    THEN [returned |-> Failure("config", "Table name is not allowed",
                               Details(tableName, schemaName)),
          cache |-> m, lookup |-> FALSE, fetch |-> FALSE]
    ELSE LET cached == DiscoveryCache_get(m, TableCacheKey(schemaName, tableName), t)
         IN IF cached.value # Null
            THEN [returned |-> Ok(cached.value),
                  cache |-> DiscoveryCache_set(cached.cache,
                                TableCacheKey(schemaName, tableName), cached.value, t),
                  lookup |-> TRUE, fetch |-> FALSE]
            ELSE [returned |-> NoRet, cache |-> cached.cache,
                  lookup |-> TRUE, fetch |-> TRUE]

\* A variant that never consults the cache.
DiscoverEntry_IgnoresCache(m, tableName, schemaName, t) ==
    IF ~isTableAllowed(tableName)
    THEN [returned |-> Failure("config", "Table name is not allowed",
                               Details(tableName, schemaName)),
          cache |-> m, lookup |-> FALSE, fetch |-> FALSE]
    ELSE [returned |-> NoRet, cache |-> m, lookup |-> TRUE, fetch |-> TRUE]

\* A variant that returns the failure that comes last in the declared order.
DiscoverFinish_LastFailure(m, tableName, schemaName, rs, t) ==
    LET failures == FailuresOf(rs)
    IN IF Len(failures) > 0
       THEN [returned |-> failures[Len(failures)], cache |-> m]
       ELSE LET metadata == TableMetadata(tableName, rs)
            IN [returned |-> Ok(metadata),
                cache |-> DiscoveryCache_set(m, TableCacheKey(schemaName, tableName),
                                             metadata, t)]

\* A variant that stores whatever it is about to return, failures included.
DiscoverFinish_CachesFailure(m, tableName, schemaName, rs, t) ==
    LET failures == FailuresOf(rs)
    IN IF Len(failures) > 0
       THEN [returned |-> failures[1],
             cache |-> DiscoveryCache_set(m, TableCacheKey(schemaName, tableName),
                                          failures[1], t)]
       ELSE LET metadata == TableMetadata(tableName, rs)
            IN [returned |-> Ok(metadata),
                cache |-> DiscoveryCache_set(m, TableCacheKey(schemaName, tableName),
                                             metadata, t)]

\* discoverTableMetadata up to its first await: the allow-list check, then
\* the cache lookup. "returned" is NoRet when the call goes on to fetch.
DiscoverEntry(m, tableName, schemaName, t) ==
    IF ~isTableAllowed(tableName)
    THEN [returned |-> Failure("config", "Table name is not allowed",
                               Details(tableName, schemaName)),
          cache |-> m, lookup |-> FALSE, fetch |-> FALSE]
    ELSE LET cached == DiscoveryCache_get(m, TableCacheKey(schemaName, tableName), t)
         IN IF cached.value # Null
            THEN [returned |-> Ok(cached.value), cache |-> cached.cache,
                  lookup |-> TRUE, fetch |-> FALSE]
            ELSE [returned |-> NoRet, cache |-> cached.cache,
                  lookup |-> TRUE, fetch |-> TRUE]

\* A variant that stores the metadata without its columns.
DiscoverFinish_CachesPartial(m, tableName, schemaName, rs, t) ==
    LET failures == FailuresOf(rs)
    IN IF Len(failures) > 0
       THEN [returned |-> failures[1], cache |-> m]
       ELSE LET metadata == TableMetadata(tableName, rs)
            IN [returned |-> Ok(metadata),
                cache |-> DiscoveryCache_set(m, TableCacheKey(schemaName, tableName),
                                             [metadata EXCEPT !.columns = <<>>], t)]

\* discoverTableMetadata after Promise.all resolved with the six results.
DiscoverFinish(m, tableName, schemaName, rs, t) ==
    LET failures == FailuresOf(rs)
    IN IF Len(failures) > 0
       THEN [returned |-> failures[1], cache |-> m]
       ELSE LET metadata == TableMetadata(tableName, rs)
            IN [returned |-> Ok(metadata),
                cache |-> DiscoveryCache_set(m, TableCacheKey(schemaName, tableName),
                                             metadata, t)]

\* listAvailableTables up to its await: the cache lookup, then getClient().
ListEntry(m, schemaName, clientThrows, t) ==
    LET cached == DiscoveryCache_get(m, ListCacheKey(schemaName), t)
    IN IF cached.value # Null
       THEN [returned |-> Ok(cached.value), cache |-> cached.cache, fetch |-> FALSE]
       ELSE IF clientThrows
            THEN [returned |-> Failure("transport", "Network error while listing tables",
                                       [schemaName |-> schemaName]),
                  cache |-> cached.cache, fetch |-> FALSE]
            ELSE [returned |-> NoRet, cache |-> cached.cache, fetch |-> TRUE]

\* A variant that stores and returns the names as the backend sent them.
ListFinish_Unfiltered(m, schemaName, answer, t) ==
    CASE answer.kind = "throw" ->
            [returned |-> Failure("transport", "Network error while listing tables",
                                  [schemaName |-> schemaName]),
             cache |-> m]
      [] answer.kind = "error" ->
            [returned |-> Failure("server", "Failed to list tables in schema",
                                  [schemaName |-> schemaName]),
             cache |-> m]
      [] answer.kind \in {"nodata", "data"} ->
            LET rows == IF answer.kind = "nodata" THEN <<>> ELSE answer.data
                tableNames == [names |-> rows]
            IN [returned |-> Ok(tableNames),
                cache |-> DiscoveryCache_set(m, ListCacheKey(schemaName), tableNames, t)]

\* listAvailableTables after its query resolved.
ListFinish(m, schemaName, answer, t) ==
    CASE answer.kind = "throw" ->
            [returned |-> Failure("transport", "Network error while listing tables",
                                  [schemaName |-> schemaName]),
             cache |-> m]
      [] answer.kind = "error" ->
            [returned |-> Failure("server", "Failed to list tables in schema",
                                  [schemaName |-> schemaName]),
             cache |-> m]
      [] answer.kind \in {"nodata", "data"} ->
            LET rows == IF answer.kind = "nodata" THEN <<>> ELSE answer.data
                tableNames == [names |-> SelectSeq(rows, isTableAllowed)]
            IN [returned |-> Ok(tableNames),
                cache |-> DiscoveryCache_set(m, ListCacheKey(schemaName), tableNames, t)]

\* getCacheStats()
getCacheStats(m) ==
    [size |-> Len(m), maxSize |-> DISCOVERY_CACHE_MAX_SIZE,
     ttlMs |-> DISCOVERY_CACHE_TTL_MS]

----------------------------------------------------------------------------
(* The discovery module as a state machine *)

\* What the caller of a returned call holds: the call, how it ran
\* ("rejected", "cached", "fetched" or "failed") and its result.
Returned(c, path, result, rs, ord) ==
    [op |-> c.op, tableName |-> c.tableName, schemaName |-> c.schemaName,
     path |-> path, result |-> result, results |-> rs, order |-> ord]

\* The harness of the cache class before any call.
CacheInit ==
    /\ lastGet = NoGet
    /\ bound = [k \in CacheKeys |-> NoBinding]
    /\ insertedAt = [k \in CacheKeys |-> 0]
    /\ nsets = 0
    /\ pure = TRUE

DiscInit ==
    /\ pc = [p \in Procs |-> "idle"]
    /\ call = [p \in Procs |-> NoCall]
    /\ results = [p \in Procs |-> <<>>]
    /\ order = [p \in Procs |-> <<>>]
    /\ lastRet = NoRet
    /\ stale = {}

\* Date.now() advances.
Tick ==
    /\ now < MaxTime
    /\ now' = now + 1
    /\ lastGet' = NoGet
    /\ lastRet' = NoRet
    /\ UNCHANGED <<runVars, valVars, pureVars, cache, bound, insertedAt, nsets, pure, pc, call, results, order, stale>>

\* A caller invokes discoverTableMetadata(tableName, schemaName); the call
\* runs to its return or to the await of Promise.all.
Discover(p, tableName, schemaName, clientThrows) ==
    LET c == [op |-> "discover", tableName |-> tableName, schemaName |-> schemaName]
        e == DiscoverEntry(cache, tableName, schemaName, now)
    IN /\ pc[p] = "idle"
       /\ cache' = e.cache
       /\ IF e.fetch
          THEN /\ pc' = [pc EXCEPT ![p] = "awaiting"]
               /\ call' = [call EXCEPT ![p] = c]
               /\ results' = [results EXCEPT ![p] =
                                 IssuedResults(clientThrows, tableName, schemaName)]
               /\ lastRet' = NoRet
          ELSE /\ ~clientThrows
               /\ lastRet' = Returned(c, IF e.lookup THEN "cached" ELSE "rejected",
                                      e.returned, <<>>, <<>>)
               /\ UNCHANGED <<pc, call, results>>
       /\ UNCHANGED <<runVars, valVars, pureVars, now, cacheVars, order, stale>>

\* The query of getTableType of call p resolves.
SettleTableType(p, answer) ==
    /\ pc[p] = "awaiting"
    /\ results[p][TableTypeFetch] = Pending
    /\ results' = [results EXCEPT ![p][TableTypeFetch] =
                      getTableType(answer, call[p].tableName, call[p].schemaName)]
    /\ order' = [order EXCEPT ![p] = Append(@, TableTypeFetch)]
    /\ lastRet' = NoRet
    /\ UNCHANGED <<runVars, valVars, pureVars, now, cache, cacheVars, pc, call, stale>>

\* The query of getColumnMetadata of call p resolves.
SettleColumns(p, answer) ==
    /\ pc[p] = "awaiting"
    /\ results[p][ColumnsFetch] = Pending
    /\ results' = [results EXCEPT ![p][ColumnsFetch] =
                      getColumnMetadata(answer, call[p].tableName, call[p].schemaName)]
    /\ order' = [order EXCEPT ![p] = Append(@, ColumnsFetch)]
    /\ lastRet' = NoRet
    /\ UNCHANGED <<runVars, valVars, pureVars, now, cache, cacheVars, pc, call, stale>>

\* Promise.all has resolved: discoverTableMetadata resumes and returns.
Complete(p) ==
    LET c == call[p]
        f == DiscoverFinish(cache, c.tableName, c.schemaName, results[p], now)
    IN /\ pc[p] = "awaiting"
       /\ Settled(results[p])
       /\ cache' = f.cache
       /\ lastRet' = Returned(c, IF f.returned.success THEN "fetched" ELSE "failed",
                              f.returned, results[p], order[p])
       /\ pc' = [pc EXCEPT ![p] = "idle"]
       /\ call' = [call EXCEPT ![p] = NoCall]
       /\ results' = [results EXCEPT ![p] = <<>>]
       /\ order' = [order EXCEPT ![p] = <<>>]
       /\ stale' = stale \ {p}
       /\ UNCHANGED <<runVars, valVars, pureVars, now, cacheVars>>

\* A caller invokes listAvailableTables(schemaName).
List(p, schemaName, clientThrows) ==
    LET c == [op |-> "list", tableName |-> EmptyString, schemaName |-> schemaName]
        e == ListEntry(cache, schemaName, clientThrows, now)
    IN /\ pc[p] = "idle"
       /\ cache' = e.cache
       /\ IF e.fetch
          THEN /\ pc' = [pc EXCEPT ![p] = "listing"]
               /\ call' = [call EXCEPT ![p] = c]
               /\ lastRet' = NoRet
          ELSE /\ lastRet' = Returned(c, IF e.returned.success THEN "cached" ELSE "failed",
                                      e.returned, <<>>, <<>>)
               /\ UNCHANGED <<pc, call>>
       /\ UNCHANGED <<runVars, valVars, pureVars, now, cacheVars, results, order, stale>>

\* The query of listAvailableTables resolves and the call returns.
ListComplete(p, answer) ==
    LET c == call[p]
        f == ListFinish(cache, c.schemaName, answer, now)
    IN /\ pc[p] = "listing"
       /\ cache' = f.cache
       /\ lastRet' = Returned(c, IF f.returned.success THEN "fetched" ELSE "failed",
                              f.returned, <<>>, <<>>)
       /\ pc' = [pc EXCEPT ![p] = "idle"]
       /\ call' = [call EXCEPT ![p] = NoCall]
       /\ stale' = stale \ {p}
       /\ UNCHANGED <<runVars, valVars, pureVars, now, cacheVars, results, order>>

\* clearDiscoveryCache()
Clear ==
    /\ cache' = DiscoveryCache_clear(cache)
    /\ lastRet' = NoRet
    /\ stale' = { p \in Procs : pc[p] # "idle" }
    /\ UNCHANGED <<runVars, valVars, pureVars, now, cacheVars, pc, call, results, order>>

Init ==
    /\ now = 0
    /\ cache = <<>>
    /\ CacheInit
    /\ DiscInit
    /\ request = NoRequest
    /\ validation = NoValidation
    /\ args = NoRequest
    /\ ret = NoRet
    /\ backend = <<>>
    /\ runResult = NoRet
    /\ log = <<>>
    /\ startTime = 0
    /\ history = <<>>
    /\ batch = NoRequest

\* Concurrent callers: two calls may be in flight at once.
ConcurrentNames == { <<"t">>, <<"t","1">>, <<"t","-">> }

ConcurrentTableTypeAnswers == { AnswerError, AnswerData([table_type |-> "BASE TABLE"]) }

ConcurrentColumnsAnswers == { AnswerThrow, AnswerData(SampleColumns) }

ConcurrentListAnswers == { AnswerData(<< <<"t">>, <<"t","-">> >>) }

Next ==
    \/ Tick
    \/ \E p \in Procs, n \in ConcurrentNames, s \in SchemaNames :
          Discover(p, n, s, FALSE)
    \/ \E p \in Procs, a \in ConcurrentTableTypeAnswers : SettleTableType(p, a)
    \/ \E p \in Procs, a \in ConcurrentColumnsAnswers : SettleColumns(p, a)
    \/ \E p \in Procs : Complete(p)
    \/ \E p \in Procs, s \in SchemaNames : List(p, s, FALSE)
    \/ \E p \in Procs, a \in ConcurrentListAnswers : ListComplete(p, a)
    \/ Clear

Spec == Init /\ [][Next]_vars

\* One caller at a time, every kind of name and every backend answer.
SequentialNames == { <<"t">>, <<"_","T">> } \cup RejectedNames

NextOne ==
    \/ Tick
    \/ \E n \in SequentialNames, s \in SchemaNames, th \in BOOLEAN :
          Discover("p1", n, s, th)
    \/ \E a \in TableTypeAnswers : SettleTableType("p1", a)
    \/ \E a \in ColumnsAnswers : SettleColumns("p1", a)
    \/ Complete("p1")
    \/ \E s \in SchemaNames, th \in BOOLEAN : List("p1", s, th)
    \/ \E a \in ListAnswers : ListComplete("p1", a)
    \/ Clear

SpecOne == Init /\ [][NextOne]_vars

----------------------------------------------------------------------------
(* Harness of the DiscoveryCache class: direct get / set / clear calls *)

CacheData == { [payload |-> "v1"], [payload |-> "v2"] }

Absent == -1

TimestampOf(m, k) == IF MapHas(m, k) THEN m[MapIndex(m, k)].timestamp ELSE Absent

CacheGet(k) ==
    LET r == DiscoveryCache_get(cache, k, now)
    IN /\ cache' = r.cache
       /\ lastGet' = [key |-> k, value |-> r.value]
       /\ pure' = (pure /\ r.cache = cache)
       /\ UNCHANGED <<runVars, valVars, pureVars, now, bound, insertedAt, nsets, discVars>>

CacheSet(k, data) ==
    LET after == DiscoveryCache_set(cache, k, data, now)
        gone == MapKeys(cache) \ MapKeys(after)
    IN /\ nsets < MaxSets
       /\ cache' = after
       /\ nsets' = nsets + 1
       /\ bound' = [j \in CacheKeys |->
                        IF j = k THEN [data |-> data, at |-> now]
                        ELSE IF j \in gone THEN NoBinding ELSE bound[j]]
       /\ insertedAt' = [insertedAt EXCEPT
                            ![k] = IF MapHas(cache, k) THEN @ ELSE nsets + 1]
       /\ pure' = (pure /\ insertedAt[k] = 0)
       /\ lastGet' = NoGet
       /\ UNCHANGED <<runVars, valVars, pureVars, now, discVars>>

CacheClear ==
    /\ cache' = DiscoveryCache_clear(cache)
    /\ bound' = [k \in CacheKeys |-> NoBinding]
    /\ insertedAt' = [k \in CacheKeys |-> 0]
    /\ pure' = TRUE
    /\ lastGet' = NoGet
    /\ UNCHANGED <<runVars, valVars, pureVars, now, nsets, discVars>>

InitCache == Init

NextCache ==
    \/ Tick
    \/ \E k \in CacheKeys : CacheGet(k)
    \/ \E k \in CacheKeys, d \in CacheData : CacheSet(k, d)
    \/ CacheClear

SpecCache == InitCache /\ [][NextCache]_vars

----------------------------------------------------------------------------
(* validator.ts: type families, operator and value compatibility *)

\* String.prototype.toLowerCase on the ASCII letters.
ToLowerChar(c) ==
    IF IsUpper(c)
    THEN LowerLetters[CHOOSE i \in DOMAIN UpperLetters : UpperLetters[i] = c]
    ELSE c

toLowerCase(s) == [i \in 1..Len(s) |-> ToLowerChar(s[i])]

\* String.prototype.includes
Includes(s, sub) ==
    \E i \in 0..(Len(s) - Len(sub)) :
        \A j \in 1..Len(sub) : s[i + j] = sub[j]

\* String.prototype.startsWith
StartsWith(s, prefix) ==
    /\ Len(prefix) <= Len(s)
    /\ \A j \in 1..Len(prefix) : s[j] = prefix[j]

IsWhitespace(c) == c \in {" ", "\t", "\n"}

\* String.prototype.trim
RECURSIVE trimStart(_)
trimStart(s) ==
    IF s # <<>> /\ IsWhitespace(s[1]) THEN trimStart(Tail(s)) ELSE s

RECURSIVE trimEnd(_)
trimEnd(s) ==
    IF s # <<>> /\ IsWhitespace(s[Len(s)])
    THEN trimEnd(SubSeq(s, 1, Len(s) - 1))
    ELSE s

trim(s) == trimEnd(trimStart(s))

\* query.ts
QUERY_DEFAULT_LIMIT == 50
QUERY_MAX_LIMIT == 500
QUERY_PREVIEW_LIMIT == 20

\* type FilterOperator
FilterOperators ==
    { "eq", "neq", "gt", "gte", "lt", "lte", "like", "ilike", "is", "in",
      "cs", "cd", "sl", "sr", "nxl", "nxr", "adj", "ov",
      "fts", "plfts", "phfts", "wfts" }

\* const OPERATOR_COMPATIBILITY: Record<FilterOperator, ColumnTypeFamily[]>
OPERATOR_COMPATIBILITY ==
    [op \in FilterOperators |->
        CASE op \in {"eq", "neq", "is"} ->
                {"text", "numeric", "boolean", "temporal", "uuid", "json"}
          [] op \in {"gt", "gte", "lt", "lte"} -> {"numeric", "temporal"}
          [] op \in {"like", "ilike"} -> {"text"}
          [] op = "in" -> {"text", "numeric", "boolean", "temporal", "uuid"}
          [] op \in {"cs", "cd"} -> {"array", "json"}
          [] op \in {"sl", "sr", "nxl", "nxr", "adj", "ov"} -> {"numeric", "temporal"}
          [] op \in {"fts", "plfts", "phfts", "wfts"} -> {"text"}]

\* A variant that looks for the numeric substrings before the text ones.
getColumnTypeFamily_NumericFirst(dataType) ==
    LET type == toLowerCase(dataType)
    IN IF \/ Includes(type, <<"i","n","t">>)
          \/ Includes(type, <<"n","u","m","e","r","i","c">>)
          \/ Includes(type, <<"d","e","c","i","m","a","l">>)
          \/ Includes(type, <<"f","l","o","a","t">>)
          \/ Includes(type, <<"d","o","u","b","l","e">>)
          \/ Includes(type, <<"r","e","a","l">>)
       THEN "numeric"
       ELSE IF \/ Includes(type, <<"t","e","x","t">>)
               \/ Includes(type, <<"v","a","r","c","h","a","r">>)
               \/ Includes(type, <<"c","h","a","r">>)
       THEN "text"
       ELSE IF Includes(type, <<"b","o","o","l">>)
       THEN "boolean"
       ELSE IF \/ Includes(type, <<"t","i","m","e","s","t","a","m","p">>)
               \/ Includes(type, <<"d","a","t","e">>)
               \/ Includes(type, <<"t","i","m","e">>)
       THEN "temporal"
       ELSE IF Includes(type, <<"u","u","i","d">>)
       THEN "uuid"
       ELSE IF Includes(type, <<"j","s","o","n">>)
       THEN "json"
       ELSE IF Includes(type, <<"a","r","r","a","y">>) \/ Includes(type, <<"[","]">>)
       THEN "array"
       ELSE "unknown"

\* getColumnTypeFamily(dataType)
getColumnTypeFamily(dataType) ==
    LET type == toLowerCase(dataType)
    IN IF \/ Includes(type, <<"t","e","x","t">>)
          \/ Includes(type, <<"v","a","r","c","h","a","r">>)
          \/ Includes(type, <<"c","h","a","r">>)
       THEN "text"
       ELSE IF \/ Includes(type, <<"i","n","t">>)
               \/ Includes(type, <<"n","u","m","e","r","i","c">>)
               \/ Includes(type, <<"d","e","c","i","m","a","l">>)
               \/ Includes(type, <<"f","l","o","a","t">>)
               \/ Includes(type, <<"d","o","u","b","l","e">>)
               \/ Includes(type, <<"r","e","a","l">>)
       THEN "numeric"
       ELSE IF Includes(type, <<"b","o","o","l">>)
       THEN "boolean"
       ELSE IF \/ Includes(type, <<"t","i","m","e","s","t","a","m","p">>)
               \/ Includes(type, <<"d","a","t","e">>)
               \/ Includes(type, <<"t","i","m","e">>)
       THEN "temporal"
       ELSE IF Includes(type, <<"u","u","i","d">>)
       THEN "uuid"
       ELSE IF Includes(type, <<"j","s","o","n">>)
       THEN "json"
       ELSE IF Includes(type, <<"a","r","r","a","y">>) \/ Includes(type, <<"[","]">>)
       THEN "array"
       ELSE "unknown"

\* A variant that lets every operator through on a column of unknown family.
isOperatorCompatibleWithType_UnknownPermissive(operator, columnType) ==
    LET typeFamily == getColumnTypeFamily(columnType)
        compatibleTypes == IF operator \in DOMAIN OPERATOR_COMPATIBILITY
                           THEN OPERATOR_COMPATIBILITY[operator]
                           ELSE {}
    IN typeFamily = "unknown" \/ typeFamily \in compatibleTypes

\* isOperatorCompatibleWithType(operator, columnType)
isOperatorCompatibleWithType(operator, columnType) ==
    LET typeFamily == getColumnTypeFamily(columnType)
        compatibleTypes == IF operator \in DOMAIN OPERATOR_COMPATIBILITY
                           THEN OPERATOR_COMPATIBILITY[operator]
                           ELSE {}
    IN typeFamily \in compatibleTypes

\* JavaScript values a filter can carry: typeof, the class of an object
\* ("Array", "Date", "Object", "null"), the characters of a string, and
\* isFinite of a number.
JsValue(typeof, class, str, finite) ==
    [typeof |-> typeof, class |-> class, str |-> str, finite |-> finite]

JsString(s) == JsValue("string", "String", s, FALSE)
JsNumber == JsValue("number", "Number", <<>>, TRUE)

IsHex(c) == IsDigit(c) \/ ToLowerChar(c) \in {"a", "b", "c", "d", "e", "f"}

\* /^[0-9a-f]{8}-[0-9a-f]{4}-[0-9a-f]{4}-[0-9a-f]{4}-[0-9a-f]{12}$/i
UuidTest(s) ==
    /\ Len(s) = 36
    /\ \A i \in 1..36 :
          IF i \in {9, 14, 19, 24} THEN s[i] = "-" ELSE IsHex(s[i])

\* isValueCompatibleWithType(value, columnType)
isValueCompatibleWithType(value, columnType) ==
    LET typeFamily == getColumnTypeFamily(columnType)
    IN CASE typeFamily = "text" -> value.typeof = "string"
         [] typeFamily = "numeric" -> value.typeof = "number" /\ value.finite
         [] typeFamily = "boolean" -> value.typeof = "boolean"
         [] typeFamily = "temporal" -> value.class = "Date" \/ value.typeof = "string"
         [] typeFamily = "uuid" -> value.typeof = "string" /\ UuidTest(value.str)
         [] typeFamily = "json" -> value.typeof = "object" \/ value.typeof = "string"
         [] typeFamily = "array" -> value.class = "Array"
         [] OTHER -> TRUE

----------------------------------------------------------------------------
(* validator.ts: the validators of one QueryConfig *)

\* An optional property: undefined, or defined with a value.
Undefined == [defined |-> FALSE]
Defined(v) == [defined |-> TRUE, value |-> v]

\* A ValidationError. The message is its template and the values
\* interpolated into it.
ValidationError(type, message, details) ==
    [type |-> type, message |-> message, details |-> details]

RECURSIVE Concat(_)
Concat(seqs) == IF seqs = <<>> THEN <<>> ELSE Head(seqs) \o Concat(Tail(seqs))

\* columns.map(col => col.column_name)
ColumnNames(columns) == [i \in 1..Len(columns) |-> columns[i].column_name]

SeqIncludes(seq, x) == \E i \in 1..Len(seq) : seq[i] = x

\* JavaScript numbers: NaN, the two infinities, and the finite numbers in
\* steps of one half (halves = 2 * the number).
JsNaN == [class |-> "NaN", halves |-> 0]
JsInfinity == [class |-> "Infinity", halves |-> 0]
JsNegInfinity == [class |-> "-Infinity", halves |-> 0]
JsHalves(h) == [class |-> "finite", halves |-> h]

\* isFinite(x)
isFinite(x) == x.class = "finite"

\* x > k and x < k for a whole number k; every comparison with NaN is false.
JsGreater(x, k) == (isFinite(x) /\ x.halves > 2 * k) \/ x.class = "Infinity"
JsLess(x, k) == (isFinite(x) /\ x.halves < 2 * k) \/ x.class = "-Infinity"

\* A variant that rounds to the nearest whole number instead of down.
clampLimit_Rounds(requestedLimit, mode) ==
    LET max == IF mode = "preview" THEN QUERY_PREVIEW_LIMIT ELSE QUERY_MAX_LIMIT
        fallback == IF mode = "preview" THEN QUERY_PREVIEW_LIMIT ELSE QUERY_DEFAULT_LIMIT
        n == IF requestedLimit.defined /\ isFinite(requestedLimit.value)
             THEN (requestedLimit.value.halves + 1) \div 2
             ELSE fallback
    IN IF n < 1 THEN 1 ELSE IF n > max THEN max ELSE n

\* query.ts: clampLimit(requestedLimit, mode)
clampLimit(requestedLimit, mode) ==
    LET max == IF mode = "preview" THEN QUERY_PREVIEW_LIMIT ELSE QUERY_MAX_LIMIT
        fallback == IF mode = "preview" THEN QUERY_PREVIEW_LIMIT ELSE QUERY_DEFAULT_LIMIT
        n == IF requestedLimit.defined /\ isFinite(requestedLimit.value)
             THEN requestedLimit.value.halves \div 2
             ELSE fallback
    IN IF n < 1 THEN 1 ELSE IF n > max THEN max ELSE n

\* A variant that looks up every expression among the columns, qualified and
\* computed ones too.
SelectEntryErrors_ChecksQualified(entry, columnNames) ==
    LET alias == entry.alias
        expression == entry.expression
    IN IF ~TruthyString(alias) \/ trim(alias) = EmptyString
       THEN << ValidationError("config",
                   [text |-> "Invalid alias name: ${alias}", alias |-> alias],
                   [alias |-> alias, expression |-> expression]) >>
       ELSE IF ~TruthyString(expression) \/ trim(expression) = EmptyString
       THEN << ValidationError("config",
                   [text |-> "Invalid expression for alias ${alias}: ${expression}",
                    alias |-> alias, expression |-> expression],
                   [alias |-> alias, expression |-> expression]) >>
       ELSE IF ~SeqIncludes(columnNames, expression)
       THEN << ValidationError("config",
                   [text |-> "Column ${expression} does not exist in table",
                    expression |-> expression],
                   [alias |-> alias, expression |-> expression,
                    availableColumns |-> columnNames]) >>
       ELSE <<>>

\* The body of the loop of validateAliasFirstSelect for one entry of
\* Object.entries(select).
SelectEntryErrors(entry, columnNames) ==
    LET alias == entry.alias
        expression == entry.expression
    IN IF ~TruthyString(alias) \/ trim(alias) = EmptyString
       THEN << ValidationError("config",
                   [text |-> "Invalid alias name: ${alias}", alias |-> alias],
                   [alias |-> alias, expression |-> expression]) >>
       ELSE IF ~TruthyString(expression) \/ trim(expression) = EmptyString
       THEN << ValidationError("config",
                   [text |-> "Invalid expression for alias ${alias}: ${expression}",
                    alias |-> alias, expression |-> expression],
                   [alias |-> alias, expression |-> expression]) >>
       ELSE IF /\ ~Includes(expression, <<".">>)
               /\ ~Includes(expression, <<"(">>)
               /\ ~SeqIncludes(columnNames, expression)
       THEN << ValidationError("config",
                   [text |-> "Column ${expression} does not exist in table",
                    expression |-> expression],
                   [alias |-> alias, expression |-> expression,
                    availableColumns |-> columnNames]) >>
       ELSE <<>>

\* validateAliasFirstSelect(select, columns); select is Object.entries(select).
validateAliasFirstSelect(select, columns) ==
    LET columnNames == ColumnNames(columns)
    IN IF Len(select) = 0
       THEN << ValidationError("config",
                   [text |-> "Select configuration cannot be empty"],
                   [select |-> select]) >>
       ELSE Concat([i \in 1..Len(select) |-> SelectEntryErrors(select[i], columnNames)])

\* columnMap.get(name): of columns sharing a name the Map keeps the last.
ColumnMapHas(columns, name) == \E i \in 1..Len(columns) : columns[i].column_name = name

ColumnMapGet(columns, name) ==
    columns[CHOOSE i \in 1..Len(columns) :
               /\ columns[i].column_name = name
               /\ \A j \in (i + 1)..Len(columns) : columns[j].column_name # name]

FilterColumnError(filter, columns) ==
    ValidationError("config",
        [text |-> "Filter column ${filter.column} does not exist", column |-> filter.column],
        [filterColumn |-> filter.column, availableColumns |-> ColumnNames(columns)])

FilterOperatorError(filter, column) ==
    ValidationError("config",
        [text |-> "Operator ${filter.operator} is not compatible with column type ${column.data_type}",
         operator |-> filter.operator, columnType |-> column.data_type],
        [operator |-> filter.operator, columnType |-> column.data_type,
         columnName |-> filter.column])

\* A variant whose details carry the value itself.
FilterValueError_CarriesValue(filter, column) ==
    ValidationError("config",
        [text |-> "Filter value is not compatible with column type ${column.data_type}",
         columnType |-> column.data_type],
        [value |-> filter.value, columnType |-> column.data_type,
         columnName |-> filter.column, operator |-> filter.operator])

FilterValueError(filter, column) ==
    ValidationError("config",
        [text |-> "Filter value is not compatible with column type ${column.data_type}",
         columnType |-> column.data_type],
        [value |-> filter.value.typeof, columnType |-> column.data_type,
         columnName |-> filter.column, operator |-> filter.operator])

\* A variant of the loop body that checks the value before the operator.
FilterErrors_ValueFirst(filter, columns) ==
    IF ~ColumnMapHas(columns, filter.column)
    THEN << FilterColumnError(filter, columns) >>
    ELSE LET column == ColumnMapGet(columns, filter.column)
         IN (IF /\ filter.operator # "is"
                /\ ~isValueCompatibleWithType(filter.value, column.data_type)
             THEN << FilterValueError(filter, column) >>
             ELSE <<>>)
            \o
            (IF ~isOperatorCompatibleWithType(filter.operator, column.data_type)
             THEN << FilterOperatorError(filter, column) >>
             ELSE <<>>)

\* A variant of the loop body that checks the value of an is filter too.
FilterErrors_ChecksIsValue(filter, columns) ==
    IF ~ColumnMapHas(columns, filter.column)
    THEN << FilterColumnError(filter, columns) >>
    ELSE LET column == ColumnMapGet(columns, filter.column)
         IN (IF ~isOperatorCompatibleWithType(filter.operator, column.data_type)
             THEN << FilterOperatorError(filter, column) >>
             ELSE <<>>)
            \o
            (IF ~isValueCompatibleWithType(filter.value, column.data_type)
             THEN << FilterValueError(filter, column) >>
             ELSE <<>>)

\* The body of the loop of validateFilters for one filter.
FilterErrors(filter, columns) ==
    IF ~ColumnMapHas(columns, filter.column)
    THEN << FilterColumnError(filter, columns) >>
    ELSE LET column == ColumnMapGet(columns, filter.column)
         IN (IF ~isOperatorCompatibleWithType(filter.operator, column.data_type)
             THEN << FilterOperatorError(filter, column) >>
             ELSE <<>>)
            \o
            (IF /\ filter.operator # "is"
                /\ ~isValueCompatibleWithType(filter.value, column.data_type)
             THEN << FilterValueError(filter, column) >>
             ELSE <<>>)

\* validateFilters(filters, columns)
validateFilters(filters, columns) ==
    Concat([i \in 1..Len(filters) |-> FilterErrors(filters[i], columns)])

\* validateOrderBy(orderBy, columns)
validateOrderBy(orderBy, columns) ==
    LET columnNames == ColumnNames(columns)
    IN Concat([i \in 1..Len(orderBy) |->
                  IF ~SeqIncludes(columnNames, orderBy[i].column)
                  THEN << ValidationError("config",
                              [text |-> "Order by column ${order.column} does not exist",
                               column |-> orderBy[i].column],
                              [orderColumn |-> orderBy[i].column,
                               availableColumns |-> columnNames]) >>
                  ELSE <<>>])

\* A variant that applies the normal cap in every mode.
validatePagination_NormalCapOnly(config, mode) ==
    LET maxLimit == QUERY_MAX_LIMIT
    IN (IF config.limit.defined /\ JsGreater(config.limit.value, maxLimit)
        THEN << ValidationError("config",
                    [text |-> "Limit ${config.limit} exceeds maximum allowed ${maxLimit} for ${mode} mode",
                     limit |-> config.limit.value, maxLimit |-> maxLimit, mode |-> mode],
                    [requestedLimit |-> config.limit.value, maxLimit |-> maxLimit,
                     mode |-> mode, effectiveLimit |-> clampLimit(config.limit, mode)]) >>
        ELSE <<>>)
       \o
       (IF config.limit.defined /\ JsLess(config.limit.value, 1)
        THEN << ValidationError("config",
                    [text |-> "Limit must be at least 1"],
                    [requestedLimit |-> config.limit.value]) >>
        ELSE <<>>)
       \o
       (IF config.offset.defined /\ JsLess(config.offset.value, 0)
        THEN << ValidationError("config",
                    [text |-> "Offset must be non-negative"],
                    [requestedOffset |-> config.offset.value]) >>
        ELSE <<>>)

\* validatePagination(config, mode)
validatePagination(config, mode) ==
    LET maxLimit == IF mode = "preview" THEN QUERY_PREVIEW_LIMIT ELSE QUERY_MAX_LIMIT
    IN (IF config.limit.defined /\ JsGreater(config.limit.value, maxLimit)
        THEN << ValidationError("config",
                    [text |-> "Limit ${config.limit} exceeds maximum allowed ${maxLimit} for ${mode} mode",
                     limit |-> config.limit.value, maxLimit |-> maxLimit, mode |-> mode],
                    [requestedLimit |-> config.limit.value, maxLimit |-> maxLimit,
                     mode |-> mode, effectiveLimit |-> clampLimit(config.limit, mode)]) >>
        ELSE <<>>)
       \o
       (IF config.limit.defined /\ JsLess(config.limit.value, 1)
        THEN << ValidationError("config",
                    [text |-> "Limit must be at least 1"],
                    [requestedLimit |-> config.limit.value]) >>
        ELSE <<>>)
       \o
       (IF config.offset.defined /\ JsLess(config.offset.value, 0)
        THEN << ValidationError("config",
                    [text |-> "Offset must be non-negative"],
                    [requestedOffset |-> config.offset.value]) >>
        ELSE <<>>)

\* config.rawSql.substring(0, 100) + "..."
SqlPreview(rawSql) ==
    SubSeq(rawSql, 1, IF Len(rawSql) < 100 THEN Len(rawSql) ELSE 100) \o <<".", ".", ".">>

\* A variant that looks for drop first.
dangerousKeywords_DropFirst ==
    << <<"d","r","o","p">>, <<"i","n","s","e","r","t">>, <<"u","p","d","a","t","e">>,
       <<"d","e","l","e","t","e">>,
       <<"c","r","e","a","t","e">>, <<"a","l","t","e","r">>,
       <<"t","r","u","n","c","a","t","e">> >>

\* const dangerousKeywords
dangerousKeywords ==
    << <<"i","n","s","e","r","t">>, <<"u","p","d","a","t","e">>,
       <<"d","e","l","e","t","e">>, <<"d","r","o","p">>,
       <<"c","r","e","a","t","e">>, <<"a","l","t","e","r">>,
       <<"t","r","u","n","c","a","t","e">> >>

\* validateSqlQuery(config, mode)
validateSqlQuery(config, mode) ==
    LET sql == toLowerCase(trim(config.rawSql))
    IN (IF ~StartsWith(sql, <<"s","e","l","e","c","t">>)
        THEN << ValidationError("config",
                    [text |-> "SQL queries must be SELECT-only"],
                    [sql |-> SqlPreview(config.rawSql)]) >>
        ELSE <<>>)
       \o
       Concat([i \in 1..Len(dangerousKeywords) |->
                  IF Includes(sql, dangerousKeywords[i])
                  THEN << ValidationError("config",
                              [text |-> "SQL query contains forbidden keyword: ${keyword}",
                               keyword |-> dangerousKeywords[i]],
                              [keyword |-> dangerousKeywords[i],
                               sql |-> SqlPreview(config.rawSql)]) >>
                  ELSE <<>>])
       \o
       validatePagination(config, mode)

\* A config that is null or not an object at all.
NotAnObject == [notAnObject |-> TRUE]

\* {} as TableMetadata
EmptyMetadata == [empty |-> TRUE]

PolicyError(config, metadata) ==
    ValidationError("permission",
        [text |-> "Table ${config.from} has RLS enabled but no policies defined",
         from |-> config.from],
        [tableName |-> config.from, hasRlsEnabled |-> metadata.has_rls_enabled,
         policyCount |-> Len(metadata.policies)])

\* A variant that checks pagination before order-by.
RestErrors_PaginationBeforeOrderBy(config, metadata, mode) ==
    validateAliasFirstSelect(config.select.value, metadata.columns)
    \o (IF config.filters.defined
        THEN validateFilters(config.filters.value, metadata.columns)
        ELSE <<>>)
    \o validatePagination(config, mode)
    \o (IF config.orderBy.defined
        THEN validateOrderBy(config.orderBy.value, metadata.columns)
        ELSE <<>>)
    \o (IF metadata.has_rls_enabled /\ Len(metadata.policies) = 0
        THEN << PolicyError(config, metadata) >>
        ELSE <<>>)

\* A variant without the check of the policies.
RestErrors_NoPolicyCheck(config, metadata, mode) ==
    validateAliasFirstSelect(config.select.value, metadata.columns)
    \o (IF config.filters.defined
        THEN validateFilters(config.filters.value, metadata.columns)
        ELSE <<>>)
    \o (IF config.orderBy.defined
        THEN validateOrderBy(config.orderBy.value, metadata.columns)
        ELSE <<>>)
    \o validatePagination(config, mode)

\* validateQueryConfig, a rest config with its metadata: the errors array.
RestErrors(config, metadata, mode) ==
    validateAliasFirstSelect(config.select.value, metadata.columns)
    \o (IF config.filters.defined
        THEN validateFilters(config.filters.value, metadata.columns)
        ELSE <<>>)
    \o (IF config.orderBy.defined
        THEN validateOrderBy(config.orderBy.value, metadata.columns)
        ELSE <<>>)
    \o validatePagination(config, mode)
    \o (IF metadata.has_rls_enabled /\ Len(metadata.policies) = 0
        THEN << PolicyError(config, metadata) >>
        ELSE <<>>)

\* A variant that discovers metadata for sql configs too.
ValidateEntry_SqlDiscovers(config, mode) ==
    IF config = NotAnObject
    THEN [returned |-> Failure("config",
                          [text |-> "QueryConfig must be a valid object"],
                          [config |-> config]),
          discover |-> FALSE]
    ELSE IF config.kind \notin {"rest", "sql"}
    THEN [returned |-> Failure("config",
                          [text |-> "QueryConfig must have a valid kind ('rest' or 'sql')"],
                          [kind |-> config.kind]),
          discover |-> FALSE]
    ELSE [returned |-> NoRet, discover |-> TRUE]

\* validateQueryConfig up to its await. "returned" is NoRet when the call
\* goes on to discoverTableMetadata(config.from, context.schemaName).
\* config.rawSql.trim() of a sql config without rawSql throws; the catch turns
\* that into a transport error.
ValidateEntry(config, mode) ==
    IF config = NotAnObject
    THEN [returned |-> Failure("config",
                          [text |-> "QueryConfig must be a valid object"],
                          [config |-> config]),
          discover |-> FALSE]
    ELSE IF config.kind \notin {"rest", "sql"}
    THEN [returned |-> Failure("config",
                          [text |-> "QueryConfig must have a valid kind ('rest' or 'sql')"],
                          [kind |-> config.kind]),
          discover |-> FALSE]
    ELSE IF config.kind = "sql" /\ "rawSql" \notin DOMAIN config
    THEN [returned |-> Failure("transport",
                          [text |-> "Unexpected error during validation"],
                          [error |-> "TypeError", configKind |-> config.kind]),
          discover |-> FALSE]
    ELSE IF config.kind = "sql"
    THEN LET errors == validateSqlQuery(config, mode)
         IN [returned |-> IF Len(errors) > 0
                          THEN [success |-> FALSE, error |-> errors[1]]
                          ELSE Ok(EmptyMetadata),
             discover |-> FALSE]
    ELSE [returned |-> NoRet, discover |-> TRUE]

\* A variant that reports every discovery failure as a config error.
ValidateFinish_DiscoveryAsConfig(config, mode, metadataResult) ==
    IF ~metadataResult.success
    THEN Failure("config",
                 [text |-> "Failed to discover table metadata: ${message}",
                  message |-> metadataResult.error.message],
                 metadataResult.error.details)
    ELSE IF ~config.select.defined
    THEN Failure("transport",
                 [text |-> "Unexpected error during validation"],
                 [error |-> "TypeError", configKind |-> config.kind])
    ELSE LET metadata == metadataResult.data
             errors == RestErrors(config, metadata, mode)
         IN IF Len(errors) > 0
            THEN [success |-> FALSE, error |-> errors[1]]
            ELSE Ok(metadata)

\* validateQueryConfig after discoverTableMetadata resolved. Object.keys of
\* an undefined select throws; the catch turns that into a transport error.
ValidateFinish(config, mode, metadataResult) ==
    IF ~metadataResult.success
    THEN Failure(metadataResult.error.type,
                 [text |-> "Failed to discover table metadata: ${message}",
                  message |-> metadataResult.error.message],
                 metadataResult.error.details)
    ELSE IF ~config.select.defined
    THEN Failure("transport",
                 [text |-> "Unexpected error during validation"],
                 [error |-> "TypeError", configKind |-> config.kind])
    ELSE LET metadata == metadataResult.data
             errors == RestErrors(config, metadata, mode)
         IN IF Len(errors) > 0
            THEN [success |-> FALSE, error |-> errors[1]]
            ELSE Ok(metadata)

----------------------------------------------------------------------------
(* validateQueryConfig as a state machine, and the requests it is given *)

\* Longest filter list of the requests that combine error groups.
MaxFilters == 2

\* Discovered columns, one of each type family, with the family a reader
\* of getColumnTypeFamily expects.
SampleTypes ==
    << [column_name |-> <<"t","x">>, data_type |-> <<"t","e","x","t">>, family |-> "text"],
       [column_name |-> <<"n","u">>, data_type |-> <<"i","n","t","e","g","e","r">>,
        family |-> "numeric"],
       [column_name |-> <<"b","o">>, data_type |-> <<"b","o","o","l","e","a","n">>,
        family |-> "boolean"],
       [column_name |-> <<"t","e">>, data_type |-> <<"d","a","t","e">>, family |-> "temporal"],
       [column_name |-> <<"u","u">>, data_type |-> <<"u","u","i","d">>, family |-> "uuid"],
       [column_name |-> <<"j","s">>, data_type |-> <<"j","s","o","n","b">>, family |-> "json"],
       [column_name |-> <<"a","r">>, data_type |-> <<"A","R","R","A","Y">>, family |-> "array"],
       [column_name |-> <<"u","n">>, data_type |-> <<"b","y","t","e","a">>,
        family |-> "unknown"] >>

ValidatorColumns ==
    [i \in 1..Len(SampleTypes) |->
        [column_name |-> SampleTypes[i].column_name, data_type |-> SampleTypes[i].data_type]]

MissingColumn == <<"z","z">>

SampleUuid ==
    <<"0","1","2","3","4","5","6","7","-","8","9","a","b","-","C","D","E","F","-",
      "0","1","2","3","-","4","5","6","7","8","9","a","b","c","d","e","f">>

\* A string, a uuid string, a number, NaN, a boolean, null, a Date, an array.
FilterValues ==
    { JsString(<<"x">>), JsString(SampleUuid), JsNumber,
      JsValue("number", "Number", <<>>, FALSE),
      JsValue("boolean", "Boolean", <<>>, FALSE),
      JsValue("object", "null", <<>>, FALSE),
      JsValue("object", "Date", <<>>, FALSE),
      JsValue("object", "Array", <<>>, FALSE) }

Filter(column, operator, value) ==
    [column |-> column, operator |-> operator, value |-> value]

\* Every operator on every sample column (and a missing one) with every value.
MatrixFilters ==
    { Filter(c, op, v) :
        c \in Range(ColumnNames(ValidatorColumns)) \cup {MissingColumn},
        op \in FilterOperators, v \in FilterValues }

\* A clean filter, one with an operator error only, one with an operator
\* and a value error, one with a value error only, one on a missing column.
FilterPool ==
    { Filter(<<"t","x">>, "eq", JsString(<<"x">>)),
      Filter(<<"n","u">>, "like", JsNumber),
      Filter(<<"n","u">>, "like", JsString(<<"x">>)),
      Filter(<<"n","u">>, "eq", JsString(<<"x">>)),
      Filter(MissingColumn, "eq", JsString(<<"x">>)) }

SeqsUpTo(S, n) == UNION { [1..k -> S] : k \in 0..n }

SelectEntry(alias, expression) == [alias |-> alias, expression |-> expression]

CleanSelect == << SelectEntry(<<"a">>, <<"t","x">>) >>

Selects ==
    { CleanSelect,
      <<>>,
      << SelectEntry(<<"a">>, <<"n","o","p","e">>) >>,
      << SelectEntry(<<" ">>, <<"t","x">>), SelectEntry(<<"b">>, <<>>) >>,
      << SelectEntry(<<"a">>, <<"r",".","c">>), SelectEntry(<<"b">>, <<"f","(","x",")">>) >> }

OrderBys ==
    { Undefined,
      Defined(<< [column |-> <<"t","x">>] >>),
      Defined(<< [column |-> MissingColumn] >>) }

\* <<limit, offset>> as requested
Paginations ==
    { <<Undefined, Undefined>>,
      <<Defined(JsHalves(2 * 0)), Undefined>>,
      <<Defined(JsHalves(2 * QUERY_PREVIEW_LIMIT)), Defined(JsHalves(2 * (0 - 1)))>>,
      <<Defined(JsHalves(2 * (QUERY_PREVIEW_LIMIT + 1))), Undefined>>,
      <<Defined(JsHalves(2 * QUERY_MAX_LIMIT)), Defined(JsHalves(2 * 0))>>,
      <<Defined(JsHalves(2 * (QUERY_MAX_LIMIT + 1))), Undefined>>,
      <<Defined(JsHalves(2 * (QUERY_MAX_LIMIT + 1))), Defined(JsHalves(2 * (0 - 1)))>>,
      <<Defined(JsHalves(5)), Defined(JsHalves(1))>>,
      <<Defined(JsNaN), Defined(JsHalves(0 - 1))>> }

Modes == { "normal", "preview" }

RestConfig(from, select, filters, orderBy, pg) ==
    [kind |-> "rest", from |-> from, select |-> select, filters |-> filters,
     orderBy |-> orderBy, limit |-> pg[1], offset |-> pg[2]]

SqlConfig(rawSql, pg) ==
    [kind |-> "sql", rawSql |-> rawSql, limit |-> pg[1], offset |-> pg[2]]

\* One filter, everything else clean or with a projection error before it.
MatrixConfigs ==
    { RestConfig(<<"t">>, Defined(s), Defined(<<f>>), Undefined, <<Undefined, Undefined>>) :
        s \in {CleanSelect}, f \in MatrixFilters }

\* Every combination of the five error groups.
GroupConfigs ==
    { RestConfig(<<"t">>, Defined(s), fs, ob, pg) :
        s \in Selects,
        fs \in {Undefined} \cup { Defined(l) : l \in SeqsUpTo(FilterPool, MaxFilters) },
        ob \in OrderBys, pg \in Paginations }

RawSqls ==
    { <<"s","e","l","e","c","t"," ","1">>,
      <<" ","S","E","L","E","C","T"," ","1">>,
      <<"d","r","o","p"," ","t">>,
      <<"s","e","l","e","c","t"," ","u","p","d","a","t","e","d">>,
      <<"S","e","l","e","c","t"," ","D","R","O","P"," ","i","n","s","e","r","t">>,
      <<"a","l","t","e","r"," ","c","r","e","a","t","e">>,
      [i \in 1..120 |-> IF i <= 4 THEN <<"d","r","o","p">>[i] ELSE "x"],
      <<>> }

OtherConfigs ==
    { NotAnObject, [kind |-> "graphql"] }
    \cup { SqlConfig(q, pg) : q \in RawSqls, pg \in Paginations }
    \cup { [kind |-> "sql", limit |-> Undefined, offset |-> Undefined] }
    \cup { RestConfig(n, Undefined, Undefined, Undefined, <<Undefined, Undefined>>) :
             n \in {<<"t">>} }
    \cup { RestConfig(n, Defined(CleanSelect), Undefined, Undefined, <<Undefined, Undefined>>) :
             n \in RejectedNames }

Configs == MatrixConfigs \cup GroupConfigs \cup OtherConfigs

SamplePolicy == [policy_name |-> "p"]

\* What discoverTableMetadata(from, "public") can resolve to: the rejection
\* of the name, a failed sub-fetch, or metadata; row security and policies
\* as the discovery queries report them.
DiscoveryOutcomes(from) ==
    IF ~isTableAllowed(from)
    THEN { DiscoverEntry(<<>>, from, Schema_public, 0).returned }
    ELSE { getTableType(AnswerNoData, from, Schema_public),
           getTableType(AnswerThrow, from, Schema_public),
           getColumnMetadata(AnswerError, from, Schema_public) }
         \cup
         { Ok([table_name |-> from, table_type |-> "BASE TABLE",
               columns |-> ValidatorColumns, constraints |-> <<>>, indexes |-> <<>>,
               policies |-> rp[2], has_rls_enabled |-> rp[1]]) :
             rp \in { <<FALSE, <<>>>>, <<TRUE, <<>>>>, <<TRUE, <<SamplePolicy>>>> } }

Request(config, mode, stage, discovered) ==
    [config |-> config, mode |-> mode, stage |-> stage, discovered |-> discovered]

\* validateQueryConfig(config, { mode }) is called and runs to its return or
\* to its await.
ValidateCall ==
    /\ request # NoRequest
    /\ request.stage = "called"
    /\ LET e == ValidateEntry(request.config, request.mode)
       IN IF e.discover
          THEN /\ request' = [request EXCEPT !.stage = "discovering"]
               /\ validation' = NoValidation
          ELSE /\ request' = [request EXCEPT !.stage = "done"]
               /\ validation' = e.returned
    /\ UNCHANGED <<runVars, now, cache, cacheVars, discVars, pureVars>>

\* discoverTableMetadata resolves and validateQueryConfig runs to its return.
ValidateResolve(metadataResult) ==
    /\ request # NoRequest
    /\ request.stage = "discovering"
    /\ request' = [request EXCEPT !.stage = "done", !.discovered = metadataResult]
    /\ validation' = ValidateFinish(request.config, request.mode, metadataResult)
    /\ UNCHANGED <<runVars, now, cache, cacheVars, discVars, pureVars>>

InitValidate ==
    /\ now = 0
    /\ cache = <<>>
    /\ CacheInit
    /\ DiscInit
    /\ request \in { Request(c, m, "called", NoRet) : c \in Configs, m \in Modes }
    /\ validation = NoValidation
    /\ args = NoRequest
    /\ ret = NoRet
    /\ backend = <<>>
    /\ runResult = NoRet
    /\ log = <<>>
    /\ startTime = 0
    /\ history = <<>>
    /\ batch = NoRequest

NextValidate ==
    \/ ValidateCall
    \/ \E d \in (IF request.stage = "discovering"
                 THEN DiscoveryOutcomes(request.config.from)
                 ELSE {}) : ValidateResolve(d)

SpecValidate == InitValidate /\ [][NextValidate]_vars

----------------------------------------------------------------------------
(* validator.ts: validateQueryConfigs *)

\* Length of the longest configs list validateQueryConfigs is called with.
MaxBatch == 2

\* A variant that returns the error of the last failure.
validateQueryConfigs_LastFailure(rs) ==
    LET failures == SelectSeq(rs, LAMBDA r : ~r.success)
    IN IF Len(failures) > 0
       THEN [success |-> FALSE, error |-> failures[Len(failures)].error]
       ELSE [success |-> TRUE, data |-> [i \in 1..Len(rs) |-> rs[i].data]]

\* validateQueryConfigs after Promise.all resolved with the results.
validateQueryConfigs(rs) ==
    LET failures == SelectSeq(rs, LAMBDA r : ~r.success)
    IN IF Len(failures) > 0
       THEN [success |-> FALSE, error |-> failures[1].error]
       ELSE [success |-> TRUE, data |-> [i \in 1..Len(rs) |-> rs[i].data]]

\* The configs of a batch: rest configs that pass, fail on their select, or
\* name a rejected table; sql that passes or fails; null.
BatchConfigs ==
    { RestConfig(<<"t">>, Defined(CleanSelect), Undefined, Undefined,
                 <<Undefined, Undefined>>),
      RestConfig(<<"t">>, Defined(<< SelectEntry(<<"a">>, <<"n","o","p","e">>) >>),
                 Undefined, Undefined, <<Undefined, Undefined>>),
      RestConfig(<<"t","-">>, Defined(CleanSelect), Undefined, Undefined,
                 <<Undefined, Undefined>>),
      SqlConfig(<<"s","e","l","e","c","t"," ","1">>, <<Undefined, Undefined>>),
      SqlConfig(<<"d","r","o","p"," ","t">>, <<Undefined, Undefined>>),
      NotAnObject }

\* validateQueryConfigs(configs, { mode }) is called: configs.map starts
\* every validateQueryConfig, each running to its return or to its await.
BatchCall ==
    /\ batch # NoRequest
    /\ batch.stage = "called"
    /\ batch' = [batch EXCEPT
                    !.stage = "awaiting",
                    !.results = [i \in 1..Len(batch.configs) |->
                                   LET e == ValidateEntry(batch.configs[i], batch.mode)
                                   IN IF e.discover THEN Pending ELSE e.returned]]
    /\ UNCHANGED <<backend, runResult, log, startTime, history, valVars, now, cache,
                   cacheVars, discVars, pureVars>>

\* discoverTableMetadata of validation i resolves and that validation runs
\* to its return.
BatchResolve(i, metadataResult) ==
    /\ batch # NoRequest
    /\ batch.stage = "awaiting"
    /\ i \in 1..Len(batch.results)
    /\ batch.results[i] = Pending
    /\ batch' = [batch EXCEPT
                    !.results[i] = ValidateFinish(batch.configs[i], batch.mode,
                                                  metadataResult),
                    !.order = Append(@, i)]
    /\ UNCHANGED <<backend, runResult, log, startTime, history, valVars, now, cache,
                   cacheVars, discVars, pureVars>>

\* Promise.all has resolved: validateQueryConfigs resumes and returns.
BatchReturn ==
    /\ batch # NoRequest
    /\ batch.stage = "awaiting"
    /\ Settled(batch.results)
    /\ batch' = [batch EXCEPT !.stage = "returned",
                              !.returned = validateQueryConfigs(batch.results)]
    /\ UNCHANGED <<backend, runResult, log, startTime, history, valVars, now, cache,
                   cacheVars, discVars, pureVars>>

InitBatch ==
    /\ now = 0
    /\ cache = <<>>
    /\ CacheInit
    /\ DiscInit
    /\ request = NoRequest
    /\ validation = NoValidation
    /\ args = NoRequest
    /\ ret = NoRet
    /\ backend = <<>>
    /\ runResult = NoRet
    /\ log = <<>>
    /\ startTime = 0
    /\ history = <<>>
    /\ batch \in { [configs |-> cs, mode |-> m, stage |-> "called", results |-> <<>>,
                     order |-> <<>>, returned |-> NoRet] :
                      cs \in SeqsUpTo(BatchConfigs, MaxBatch), m \in Modes }

NextBatch ==
    \/ BatchCall
    \/ \E i \in 1..MaxBatch :
          \E d \in (IF /\ batch.stage = "awaiting"
                       /\ i \in 1..Len(batch.results)
                       /\ batch.results[i] = Pending
                    THEN DiscoveryOutcomes(batch.configs[i].from)
                    ELSE {}) : BatchResolve(i, d)
    \/ BatchReturn

SpecBatch == InitBatch /\ [][NextBatch]_vars

----------------------------------------------------------------------------
(* source.ts: the executors and QueryRunner *)

\* String.prototype.toUpperCase on the ASCII letters.
ToUpperChar(c) ==
    IF IsLower(c)
    THEN UpperLetters[CHOOSE i \in DOMAIN LowerLetters : LowerLetters[i] = c]
    ELSE c

toUpperCase(s) == [i \in 1..Len(s) |-> ToUpperChar(s[i])]

\* The characters of an error type.
TypeChars(type) ==
    CASE type = "config" -> <<"c","o","n","f","i","g">>
      [] type = "permission" -> <<"p","e","r","m","i","s","s","i","o","n">>
      [] type = "transport" -> <<"t","r","a","n","s","p","o","r","t">>
      [] type = "server" -> <<"s","e","r","v","e","r">>

\* clampOffset(requestedOffset)
clampOffset(requestedOffset) ==
    LET n == IF requestedOffset.defined /\ isFinite(requestedOffset.value)
             THEN requestedOffset.value.halves \div 2
             ELSE 0
    IN IF n < 0 THEN 0 ELSE n

\* toPostgrestError(input). details is null, a string (a JsString), or the
\* JSON text of anything else; hint is null or Defined(the string); code is
\* a string, as its characters.
toPostgrestError(input) ==
    [message |-> input.message,
     details |-> IF input.details \in {Null, Undefined}
                 THEN Null
                 ELSE IF "typeof" \in DOMAIN input.details /\ input.details.typeof = "string"
                 THEN input.details
                 ELSE [json |-> input.details],
     hint |-> IF input.hint.defined THEN input.hint ELSE Null,
     code |-> IF input.code.defined THEN input.code.value ELSE <<"E","R","R","O","R">>]

\* A variant that returns an absent payload as it came.
SupabaseRestSource_execute_KeepsNull(answer) ==
    CASE answer.kind = "error" -> [data |-> Null, error |-> answer.error]
      [] answer.kind = "data" -> [data |-> [rows |-> answer.data], error |-> Null]
      [] answer.kind = "nodata" -> [data |-> Null, error |-> Null]
      [] answer.kind = "throw" ->
            [data |-> Null,
             error |-> toPostgrestError(
                          [message |-> [text |-> "Network error during query execution"],
                           details |-> IF answer.message.defined
                                       THEN answer.message.value
                                       ELSE JsString("Unknown error"),
                           hint |-> Defined("transport"),
                           code |-> Defined(<<"T","R","A","N","S","P","O","R","T">>)])]

\* A variant without the catch: what the query threw leaves the call.
SupabaseRestSource_execute_Rethrows(answer) ==
    IF answer.kind = "throw"
    THEN [data |-> Null, error |-> Null, thrown |-> answer.message]
    ELSE IF answer.kind = "error"
    THEN [data |-> Null, error |-> answer.error]
    ELSE [data |-> [rows |-> IF answer.kind = "data" THEN answer.data ELSE <<>>],
          error |-> Null]

\* SupabaseRestSource.execute after its await: what it returns for what the
\* query resolved to. data is null or [rows |-> the array].
SupabaseRestSource_execute(answer) ==
    CASE answer.kind = "error" -> [data |-> Null, error |-> answer.error]
      [] answer.kind = "data" -> [data |-> [rows |-> answer.data], error |-> Null]
      [] answer.kind = "nodata" -> [data |-> [rows |-> <<>>], error |-> Null]
      [] answer.kind = "throw" ->
            [data |-> Null,
             error |-> toPostgrestError(
                          [message |-> [text |-> "Network error during query execution"],
                           details |-> IF answer.message.defined
                                       THEN answer.message.value
                                       ELSE JsString("Unknown error"),
                           hint |-> Defined("transport"),
                           code |-> Defined(<<"T","R","A","N","S","P","O","R","T">>)])]

\* SupabaseSqlSource.execute after its await.
SupabaseSqlSource_execute(answer) ==
    CASE answer.kind = "error" -> [data |-> Null, error |-> answer.error]
      [] answer.kind = "data" -> [data |-> [rows |-> answer.data], error |-> Null]
      [] answer.kind = "nodata" -> [data |-> [rows |-> <<>>], error |-> Null]
      [] answer.kind = "throw" ->
            [data |-> Null,
             error |-> toPostgrestError(
                          [message |-> [text |-> "Network error during SQL execution"],
                           details |-> IF answer.message.defined
                                       THEN answer.message.value
                                       ELSE JsString("Unknown error"),
                           hint |-> Defined("transport"),
                           code |-> Defined(<<"T","R","A","N","S","P","O","R","T">>)])]

\* SupabaseRestSource.buildSelectString(select); select is
\* Object.entries(select).
buildSelectString(select) ==
    Concat([i \in 1..Len(select) |->
               (IF i > 1 THEN <<",">> ELSE <<>>)
               \o select[i].alias \o <<":">> \o select[i].expression])

\* A variant that applies the requested limit and offset as they came.
SupabaseRestSource_query_Unclamped(config, mode) ==
    LET limit == IF config.limit.defined /\ isFinite(config.limit.value)
                 THEN config.limit.value.halves \div 2
                 ELSE clampLimit(config.limit, mode)
        offset == IF config.offset.defined /\ isFinite(config.offset.value)
                  THEN config.offset.value.halves \div 2
                  ELSE 0
    IN [source |-> "rest", config |-> config, mode |-> mode,
        select |-> buildSelectString(config.select.value),
        range |-> <<offset, offset + limit - 1>>,
        answer |-> Pending]

\* SupabaseRestSource.execute up to its await: the query it sends, with the
\* select string and the range of rows (limit > 0 always holds).
SupabaseRestSource_query(config, mode) ==
    LET limit == clampLimit(config.limit, mode)
        offset == clampOffset(config.offset)
    IN [source |-> "rest", config |-> config, mode |-> mode,
        select |-> buildSelectString(config.select.value),
        range |-> <<offset, offset + limit - 1>>,
        answer |-> Pending]

\* A variant that delegates to the executors whatever validation said.
QueryRunner_execute_SkipsPreflight(config, mode, v) ==
    IF config # NotAnObject /\ config.kind = "rest" /\ config.select.defined
    THEN [returned |-> NoRet,
          query |-> SupabaseRestSource_query(config, mode)]
    ELSE IF config # NotAnObject /\ config.kind = "sql"
    THEN [returned |-> NoRet,
          query |-> [source |-> "sql", config |-> config, mode |-> mode, answer |-> Pending]]
    ELSE [returned |-> [data |-> Null,
                        error |-> toPostgrestError(
                                     [message |-> [text |-> "Invalid query configuration"],
                                      details |-> Undefined, hint |-> Undefined,
                                      code |-> Defined(<<"C","O","N","F","I","G">>)])],
          query |-> Null]

\* A variant that still dispatches to the executor when validation failed
\* with a transport error.
QueryRunner_execute_FallsThrough(config, mode, v) ==
    IF (~v.success) /\ v.error.type = "transport" /\ config.kind = "rest"
                    /\ config.select.defined
    THEN [returned |-> NoRet, query |-> SupabaseRestSource_query(config, mode)]
    ELSE QueryRunner_execute_SkipsPreflight(
             IF v.success THEN config ELSE NotAnObject, mode, v)

\* QueryRunner.execute from the resolution of validateQueryConfig to its
\* return or to the await of an executor. "query" is what the executor sends
\* to the backend: the rest query with its range, or the exec_sql call.
QueryRunner_execute(config, mode, v) ==
    IF ~v.success
    THEN [returned |-> [data |-> Null,
                        error |-> toPostgrestError(
                                     [message |-> v.error.message,
                                      details |-> v.error.details,
                                      hint |-> Defined(v.error.type),
                                      code |-> Defined(toUpperCase(TypeChars(v.error.type)))])],
          query |-> Null]
    ELSE IF config.kind = "rest"
    THEN [returned |-> NoRet,
          query |-> SupabaseRestSource_query(config, mode)]
    ELSE IF config.kind = "sql"
    THEN [returned |-> NoRet,
          query |-> [source |-> "sql", config |-> config, mode |-> mode, answer |-> Pending]]
    ELSE [returned |-> [data |-> Null,
                        error |-> toPostgrestError(
                                     [message |-> [text |-> "Invalid query configuration"],
                                      details |-> Undefined, hint |-> Undefined,
                                      code |-> Defined(<<"C","O","N","F","I","G">>)])],
          query |-> Null]

\* The record QueryRunner.execute writes when validation failed, t being
\* Date.now() - startTime. NotAnObject stands for null here: config.kind
\* throws inside the try and nothing is written.
ValidationFailedLog(config, t) ==
    IF config = NotAnObject
    THEN <<>>
    ELSE << [tag |-> "[QueryRunner] validation failed",
             table |-> IF config.kind = "rest"
                       THEN config.from
                       ELSE <<"s","q","l","_","q","u","e","r","y">>,
             durationMs |-> t] >>

\* The records written once the backend answered: the executor's, then that
\* of QueryRunner.execute for the result the executor returned.
ExecutionLogs(config, answer, res, t) ==
    LET table == IF config.kind = "rest"
                 THEN config.from
                 ELSE <<"s","q","l","_","q","u","e","r","y">>
        name == IF config.kind = "rest" THEN "[Query] REST" ELSE "[Query] SQL"
    IN << IF answer.kind = "throw"
          THEN [tag |-> IF config.kind = "rest" THEN "[Query] REST error"
                                                  ELSE "[Query] SQL error",
                table |-> table, rowCount |-> 0, durationMs |-> t]
          ELSE [tag |-> name, table |-> table,
                rowCount |-> IF answer.kind = "data" THEN Len(answer.data) ELSE 0,
                durationMs |-> t],
          [tag |-> "[QueryRunner] executed", table |-> table,
           rowCount |-> IF res.data = Null THEN 0 ELSE Len(res.data.rows),
           durationMs |-> t] >>

\* What the backend answers to a query: an error of its own, rows, an absent
\* payload, or nothing because the call threw (an Error with a message, or
\* another value).
ExecutorAnswers ==
    { AnswerNoData, AnswerData(<<>>), AnswerData(<< [id |-> 1] >>) }
    \cup { [kind |-> "error", error |-> e] :
             e \in { [message |-> [text |-> "relation does not exist"], details |-> Null,
                      hint |-> Null, code |-> <<"4","2","P","0","1">>],
                     [message |-> [text |-> "permission denied for table"],
                      details |-> JsString(<<"r","l","s">>),
                      hint |-> Defined("grant"), code |-> <<"4","2","5","0","1">>] } }
    \cup { [kind |-> "throw", message |-> m] :
             m \in { Defined(JsString(<<"f","e","t","c","h">>)), Undefined } }

\* The configs QueryRunner.execute is called with.
RunConfigs ==
    MatrixConfigs \cup OtherConfigs
    \cup { RestConfig(<<"t">>, Defined(CleanSelect), Undefined, ob, pg) :
             ob \in OrderBys, pg \in Paginations }
    \cup { RestConfig(<<"t">>, Defined(s), Undefined, Undefined, <<Undefined, Undefined>>) :
             s \in Selects
                  \cup { << SelectEntry(<<"a">>, <<"r",".","c",",","b",":","r",".","d">>) >>,
                         << SelectEntry(<<"a">>, <<"t","x">>),
                            SelectEntry(<<"b">>, <<"f","(","x",",","y",")">>) >> } }

\* QueryRunner.execute goes on after validateQueryConfig resolved: it returns
\* the validation error, or calls the executor, which sends its query.
RunValidated ==
    /\ request # NoRequest
    /\ request.stage = "done"
    /\ LET e == QueryRunner_execute(request.config, request.mode, validation)
       IN IF e.query = Null
          THEN /\ request' = [request EXCEPT !.stage = "returned"]
               /\ runResult' = e.returned
               /\ backend' = backend
               /\ log' = log \o ValidationFailedLog(request.config, now - startTime)
          ELSE /\ request' = [request EXCEPT !.stage = "executing"]
               /\ backend' = Append(backend, e.query)
               /\ runResult' = runResult
               /\ log' = log
    /\ UNCHANGED <<startTime, history, validation, now, cache, cacheVars, discVars, pureVars, batch>>

\* The backend answers; the executor and then QueryRunner.execute return.
ExecutorSettle(answer) ==
    /\ request # NoRequest
    /\ request.stage = "executing"
    /\ backend' = [backend EXCEPT ![Len(backend)].answer = answer]
    /\ runResult' = IF request.config.kind = "rest"
                    THEN SupabaseRestSource_execute(answer)
                    ELSE SupabaseSqlSource_execute(answer)
    /\ log' = log \o ExecutionLogs(request.config, answer, runResult', now - startTime)
    /\ request' = [request EXCEPT !.stage = "returned"]
    /\ UNCHANGED <<startTime, history, validation, now, cache, cacheVars, discVars, pureVars, batch>>

InitRun ==
    /\ now = 0
    /\ cache = <<>>
    /\ CacheInit
    /\ DiscInit
    /\ request \in { Request(c, m, "called", NoRet) : c \in RunConfigs, m \in Modes }
    /\ validation = NoValidation
    /\ args = NoRequest
    /\ ret = NoRet
    /\ backend = <<>>
    /\ runResult = NoRet
    /\ log = <<>>
    /\ startTime = 0
    /\ history = <<>>
    /\ batch = NoRequest

NextRun ==
    \/ ValidateCall
    \/ \E d \in (IF request.stage = "discovering"
                 THEN DiscoveryOutcomes(request.config.from)
                 ELSE {}) : ValidateResolve(d)
    \/ RunValidated
    \/ \E a \in ExecutorAnswers : ExecutorSettle(a)

SpecRun == InitRun /\ [][NextRun]_vars

----------------------------------------------------------------------------
(* QueryRunner.execute over discoverTableMetadata and the discovery cache *)

\* Number of QueryRunner.execute calls a caller makes, one after the other.
MaxCalls == 2

\* The configs of a session: valid and invalid against the columns the
\* backend answers with, a rejected name, a missing select, sql, and null.
SessionConfigs ==
    { RestConfig(<<"t">>, Defined(<< SelectEntry(<<"a">>, <<"i","d">>) >>), Undefined,
                 Undefined, <<Undefined, Undefined>>),
      RestConfig(<<"t">>, Defined(CleanSelect), Undefined, Undefined,
                 <<Undefined, Undefined>>),
      RestConfig(<<"t">>, Undefined, Undefined, Undefined, <<Undefined, Undefined>>),
      RestConfig(<<"t","-">>, Defined(CleanSelect), Undefined, Undefined,
                 <<Undefined, Undefined>>),
      SqlConfig(<<"s","e","l","e","c","t"," ","1">>, <<Undefined, Undefined>>),
      SqlConfig(<<"d","r","o","p"," ","t">>, <<Undefined, Undefined>>),
      NotAnObject }

SessionTableTypeAnswers ==
    { AnswerError, AnswerThrow, AnswerData([table_type |-> "BASE TABLE"]) }

SessionColumnsAnswers == { AnswerThrow, AnswerNoData, AnswerData(SampleColumns) }

SessionExecutorAnswers ==
    { a \in ExecutorAnswers :
        \/ a.kind = "error" /\ a.error.details = Null
        \/ a.kind = "throw" /\ a.message.defined
        \/ a.kind = "data" /\ Len(a.data) = 1 }

\* One resolved validateQueryConfig call: how discovery ran ("none" when it
\* was not called), what it resolved to, and the validation result.
Validated(config, mode, path, discovered, v) ==
    [config |-> config, mode |-> mode, path |-> path, discovered |-> discovered,
     validation |-> v]

\* A caller invokes QueryRunner.execute(config, mode) once the previous call
\* has returned. backend, runResult and log are those of the call in hand.
Execute(config, mode) ==
    /\ IF request = NoRequest THEN TRUE ELSE request.stage = "returned"
    /\ Len(history) < MaxCalls
    /\ request' = Request(config, mode, "called", NoRet)
    /\ validation' = NoValidation
    /\ startTime' = now
    /\ backend' = <<>>
    /\ runResult' = NoRet
    /\ log' = <<>>
    /\ lastRet' = NoRet
    /\ UNCHANGED <<history, now, cache, cacheVars, pc, call, results, order, pureVars, stale, batch>>

\* validateQueryConfig runs to its return or, through discoverTableMetadata,
\* to the await of Promise.all.
Preflight(clientThrows) ==
    LET config == request.config
        mode == request.mode
        e == ValidateEntry(config, mode)
    IN /\ request # NoRequest
       /\ request.stage = "called"
       /\ IF ~e.discover
          THEN /\ ~clientThrows
               /\ request' = [request EXCEPT !.stage = "done"]
               /\ validation' = e.returned
               /\ history' = Append(history,
                                Validated(config, mode, "none", NoRet, e.returned))
               /\ UNCHANGED <<cache, pc, call, results, lastRet>>
          ELSE LET c == [op |-> "discover", tableName |-> config.from,
                         schemaName |-> Schema_public]
                   d == DiscoverEntry(cache, config.from, Schema_public, now)
               IN /\ cache' = d.cache
                  /\ IF d.fetch
                     THEN /\ pc' = [pc EXCEPT !["p1"] = "awaiting"]
                          /\ call' = [call EXCEPT !["p1"] = c]
                          /\ results' = [results EXCEPT !["p1"] =
                                            IssuedResults(clientThrows, config.from,
                                                          Schema_public)]
                          /\ lastRet' = NoRet
                          /\ request' = [request EXCEPT !.stage = "discovering"]
                          /\ validation' = NoValidation
                          /\ history' = history
                     ELSE LET path == IF d.lookup THEN "cached" ELSE "rejected"
                              v == ValidateFinish(config, mode, d.returned)
                          IN /\ ~clientThrows
                             /\ lastRet' = Returned(c, path, d.returned, <<>>, <<>>)
                             /\ request' = [request EXCEPT !.stage = "done",
                                                           !.discovered = d.returned]
                             /\ validation' = v
                             /\ history' = Append(history,
                                              Validated(config, mode, path, d.returned, v))
                             /\ UNCHANGED <<pc, call, results>>
       /\ UNCHANGED <<backend, runResult, log, startTime, now, cacheVars, order, pureVars, stale, batch>>

\* Promise.all has resolved: discoverTableMetadata returns and
\* validateQueryConfig runs to its return.
PreflightResume ==
    LET config == request.config
        mode == request.mode
        c == call["p1"]
        f == DiscoverFinish(cache, c.tableName, c.schemaName, results["p1"], now)
        path == IF f.returned.success THEN "fetched" ELSE "failed"
        v == ValidateFinish(config, mode, f.returned)
    IN /\ request # NoRequest
       /\ request.stage = "discovering"
       /\ pc["p1"] = "awaiting"
       /\ Settled(results["p1"])
       /\ cache' = f.cache
       /\ lastRet' = Returned(c, path, f.returned, results["p1"], order["p1"])
       /\ pc' = [pc EXCEPT !["p1"] = "idle"]
       /\ call' = [call EXCEPT !["p1"] = NoCall]
       /\ results' = [results EXCEPT !["p1"] = <<>>]
       /\ order' = [order EXCEPT !["p1"] = <<>>]
       /\ request' = [request EXCEPT !.stage = "done", !.discovered = f.returned]
       /\ validation' = v
       /\ history' = Append(history, Validated(config, mode, path, f.returned, v))
       /\ stale' = stale \ {"p1"}
       /\ UNCHANGED <<backend, runResult, log, startTime, now, cacheVars, pureVars, batch>>

NextSession ==
    \/ Tick
    \/ \E c \in SessionConfigs : Execute(c, "normal")
    \/ \E th \in BOOLEAN : Preflight(th)
    \/ \E a \in SessionTableTypeAnswers : SettleTableType("p1", a)
    \/ \E a \in SessionColumnsAnswers : SettleColumns("p1", a)
    \/ PreflightResume
    \/ RunValidated
    \/ \E a \in SessionExecutorAnswers : ExecutorSettle(a)

SpecSession == Init /\ [][NextSession]_vars

\* A step of a call in flight: a backend call that was issued settles, or
\* the code between two awaits runs.
SessionProgress ==
    \/ \E th \in BOOLEAN : Preflight(th)
    \/ \E a \in SessionTableTypeAnswers : SettleTableType("p1", a)
    \/ \E a \in SessionColumnsAnswers : SettleColumns("p1", a)
    \/ PreflightResume
    \/ RunValidated
    \/ \E a \in SessionExecutorAnswers : ExecutorSettle(a)

\* Every backend call that was issued settles and the code between two
\* awaits runs; the caller need not call and the clock need not advance.
SessionFairness == WF_vars(SessionProgress)

\* The sessions whose calls are followed to their return: a config that
\* passes validation, one that fails it after discovery, sql, and null.
LiveConfigs ==
    { c \in SessionConfigs :
        \/ c = NotAnObject
        \/ c # NotAnObject /\ c.kind = "sql" /\ validateSqlQuery(c, "normal") = <<>>
        \/ c # NotAnObject /\ c.kind = "rest" /\ c.select.defined /\ c.from = <<"t">> }

NextSessionLive ==
    \/ Tick
    \/ \E c \in LiveConfigs : Execute(c, "normal")
    \/ SessionProgress

SpecSessionLive == Init /\ [][NextSessionLive]_vars /\ SessionFairness

----------------------------------------------------------------------------
(* The helper functions applied on their own *)

\* Longest raw type, in pieces of TypeTokens.
MaxTokens == 2

\* Pieces of raw type names: every substring getColumnTypeFamily looks for,
\* some in upper case, and pieces it does not look for.
TypeTokens ==
    { <<"t","e","x","t">>, <<"v","a","r","c","h","a","r">>, <<"c","h","a","r">>,
      <<"i","n","t">>, <<"n","u","m","e","r","i","c">>, <<"d","e","c","i","m","a","l">>,
      <<"f","l","o","a","t">>, <<"d","o","u","b","l","e">>, <<"r","e","a","l">>,
      <<"b","o","o","l">>, <<"t","i","m","e","s","t","a","m","p">>, <<"d","a","t","e">>,
      <<"t","i","m","e">>, <<"u","u","i","d">>, <<"j","s","o","n">>,
      <<"a","r","r","a","y">>, <<"[","]">>,
      <<"T","E","X","T">>, <<"A","R","R","A","Y">>, <<"I","n","t">>,
      <<"b","y","t","e","a">>, <<" ">>, <<"p","o">> }

RawTypes == { Concat(ts) : ts \in SeqsUpTo(TypeTokens, MaxTokens) }

\* Requested limits, as twice their value: around 0 and 1, around the
\* preview cap and the default, around the normal cap, and far above it.
LimitValues ==
    { Undefined, Defined(JsNaN), Defined(JsInfinity), Defined(JsNegInfinity) }
    \cup { Defined(JsHalves(h)) :
             h \in ((0 - 5)..5) \cup (39..42) \cup (99..101) \cup (999..1002)
                     \cup {2000, 0 - 2000} }

\* requestedOffset of clampOffset
OffsetValues ==
    { Undefined, Defined(JsNaN), Defined(JsInfinity), Defined(JsNegInfinity) }
    \cup { Defined(JsHalves(h)) : h \in ((0 - 3)..3) \cup {2001, 0 - 2001} }

\* Object.entries(select): up to two entries, of distinct aliases.
SelectInputs ==
    LET aliases == { <<"a">>, <<"b">>, <<>>, <<" ">>, <<"\t", " ">> }
        expressions == { <<"t","x">>, <<"n","u">>, <<>>, <<" ">>, <<" ", "\n">>,
                         <<"n","o","p","e">>, <<" ","t","x">>, <<"T","X">>,
                         <<"r",".","c">>, <<"f","(","x",")">>, <<"z","z","(">>,
                         <<".">> }
        entries == { SelectEntry(a, x) : a \in aliases, x \in expressions }
    IN { s \in SeqsUpTo(entries, 2) : Len(s) = 2 => s[1].alias # s[2].alias }

PureCalls ==
    { [fn |-> "getColumnTypeFamily", dataType |-> t] : t \in RawTypes }
    \cup { [fn |-> "clampLimit", requestedLimit |-> l, mode |-> m, validated |-> FALSE] :
             l \in LimitValues, m \in Modes }
    \cup { [fn |-> "SupabaseRestSource.execute",
            config |-> RestConfig(<<"t">>, Defined(CleanSelect), Undefined, Undefined, <<l, o>>),
            mode |-> m] :
             l \in LimitValues, o \in OffsetValues, m \in Modes }
    \cup { [fn |-> "validateAliasFirstSelect", select |-> s, columns |-> ValidatorColumns] :
             s \in SelectInputs }

\* getColumnTypeFamily(dataType) is called.
ApplyGetColumnTypeFamily ==
    /\ args.fn = "getColumnTypeFamily"
    /\ ret = NoRet
    /\ ret' = [value |-> getColumnTypeFamily(args.dataType)]
    /\ UNCHANGED <<runVars, args, now, cache, cacheVars, discVars, valVars>>

\* validatePagination runs on the limit before it is clamped; it reads the
\* config and changes nothing.
PreflightPagination ==
    /\ args.fn = "clampLimit"
    /\ ret = NoRet
    /\ ~args.validated
    /\ args' = [args EXCEPT !.validated =
                   Len(validatePagination([limit |-> args.requestedLimit,
                                           offset |-> Undefined], args.mode)) >= 0]
    /\ UNCHANGED <<runVars, ret, now, cache, cacheVars, discVars, valVars>>

\* clampLimit(requestedLimit, mode) is called.
ApplyClampLimit ==
    /\ args.fn = "clampLimit"
    /\ ret = NoRet
    /\ ret' = [value |-> clampLimit(args.requestedLimit, args.mode)]
    /\ UNCHANGED <<runVars, args, now, cache, cacheVars, discVars, valVars>>

\* SupabaseRestSource.execute(config, mode) is called by itself, on a config
\* that no validation has seen, and builds its query.
ApplyRestQuery ==
    /\ args.fn = "SupabaseRestSource.execute"
    /\ ret = NoRet
    /\ ret' = [value |-> SupabaseRestSource_query(args.config, args.mode)]
    /\ UNCHANGED <<runVars, args, now, cache, cacheVars, discVars, valVars>>

InitPure ==
    /\ now = 0
    /\ cache = <<>>
    /\ CacheInit
    /\ DiscInit
    /\ request = NoRequest
    /\ validation = NoValidation
    /\ args \in PureCalls
    /\ ret = NoRet
    /\ backend = <<>>
    /\ runResult = NoRet
    /\ log = <<>>
    /\ startTime = 0
    /\ history = <<>>
    /\ batch = NoRequest

\* validateAliasFirstSelect(select, columns) is called.
ApplyValidateAliasFirstSelect ==
    /\ args.fn = "validateAliasFirstSelect"
    /\ ret = NoRet
    /\ ret' = [value |-> validateAliasFirstSelect(args.select, args.columns)]
    /\ UNCHANGED <<runVars, args, now, cache, cacheVars, discVars, valVars>>

NextPure ==
    \/ ApplyGetColumnTypeFamily
    \/ PreflightPagination
    \/ ApplyClampLimit
    \/ ApplyRestQuery
    \/ ApplyValidateAliasFirstSelect

SpecPure == InitPure /\ [][NextPure]_vars

----------------------------------------------------------------------------
(* Claims about the DiscoveryCache class (SpecCache) *)

\* C1: after set(k, v) at t0 with no later set, eviction or clear of k,
\* get(k) at time t returns v when t - t0 <= TTL, leaving the entry's
\* timestamp at t0, and returns null and leaves no entry when t - t0 > TTL.
C1_CacheTtl ==
    lastGet # NoGet =>
        LET k == lastGet.key
            w == bound[k]
        IN w # NoBinding =>
              IF now - w.at <= DISCOVERY_CACHE_TTL_MS
              THEN lastGet.value = w.data /\ TimestampOf(cache, k) = w.at
              ELSE lastGet.value = Null /\ ~MapHas(cache, k)

\* A get of a key set more than TTL ago, never removed since, returned null;
\* a time after its set passed without a refresh.
C1_Witness ==
    /\ lastGet # NoGet
    /\ bound[lastGet.key] # NoBinding
    /\ now - bound[lastGet.key].at > DISCOVERY_CACHE_TTL_MS
    /\ lastGet.value = Null

NumInserted == Cardinality({ k \in CacheKeys : insertedAt[k] > 0 })

\* C2: after set calls on more than max-size pairwise distinct keys the cache
\* holds exactly max-size entries, and every key evicted was inserted before
\* every key that survived (first in, first out).
C2_CacheCapacity ==
    pure =>
        /\ NumInserted > DISCOVERY_CACHE_MAX_SIZE
              => Len(cache) = DISCOVERY_CACHE_MAX_SIZE
        /\ \A k \in MapKeys(cache) : \A j \in CacheKeys \ MapKeys(cache) :
              insertedAt[j] > 0 => insertedAt[j] < insertedAt[k]

\* More than max-size distinct keys were set and one was evicted.
C2_Witness ==
    /\ pure
    /\ NumInserted > DISCOVERY_CACHE_MAX_SIZE
    /\ Len(cache) = DISCOVERY_CACHE_MAX_SIZE


\* ---------------------------------------------------------------------------
\* Claims about discoverTableMetadata / listAvailableTables / clearDiscoveryCache

\* The entry under key k is present and not older than the TTL at time t.
FreshAt(m, k, t) ==
    MapHas(m, k) /\ t - TimestampOf(m, k) <= DISCOVERY_CACHE_TTL_MS

\* C3: in every reachable state, under any interleaving of
\* discoverTableMetadata, listAvailableTables and clearDiscoveryCache calls
\* (calls overlapping at their awaits included), the number of cache entries,
\* expired-but-unread ones counted, is at most DISCOVERY_CACHE_MAX_SIZE.
C3_CacheSizeBounded ==
    /\ getCacheStats(cache).size = Len(cache)
    /\ getCacheStats(cache).size <= DISCOVERY_CACHE_MAX_SIZE
    /\ getCacheStats(cache).maxSize = DISCOVERY_CACHE_MAX_SIZE

\* The cache is full, holds an expired entry nobody read, and a call is
\* still awaiting its sub-fetches.
C3_Witness ==
    /\ Len(cache) = DISCOVERY_CACHE_MAX_SIZE
    /\ \E i \in 1..Len(cache) : now - cache[i].timestamp > DISCOVERY_CACHE_TTL_MS
    /\ \E p \in Procs : pc[p] = "awaiting" /\ Settled(results[p])

\* C4: a discoverTableMetadata call whose table name does not match
\* ^[a-zA-Z_][a-zA-Z0-9_]*$ (the empty name included) returns a failure of
\* type config in the same step, issues no sub-fetch, does not look the cache
\* up and leaves the cache as it was.
C4_RejectedName ==
    [][ /\ \A p \in Procs :
              (call'[p] # call[p] /\ call'[p] # NoCall /\ call'[p].op = "discover")
                  => call'[p].tableName \notin RejectedNames
        /\ (lastRet' # NoRet /\ lastRet'.op = "discover"
                /\ lastRet'.tableName \in RejectedNames)
              => /\ lastRet'.result.success = FALSE
                 /\ lastRet'.result.error.type = "config"
                 /\ lastRet'.path = "rejected"
                 /\ cache' = cache
                 /\ pc' = pc /\ results' = results
      ]_vars

\* The empty name was rejected while the cache held entries.
C4_Witness ==
    /\ lastRet # NoRet /\ lastRet.op = "discover"
    /\ lastRet.tableName = EmptyString
    /\ lastRet.path = "rejected"
    /\ Len(cache) > 0

\* C5: when the cache holds an unexpired entry under
\* "table_metadata:{schema}:{name}", discoverTableMetadata(name, schema)
\* returns success carrying exactly the cached metadata, issues none of the
\* six sub-fetches and leaves the cache unchanged.
C5_CacheHit ==
    [][ /\ \A p \in Procs :
              (pc[p] = "idle" /\ pc'[p] = "awaiting" /\ call'[p].op = "discover")
                => ~FreshAt(cache, TableCacheKey(call'[p].schemaName,
                                                 call'[p].tableName), now)
        /\ (lastRet' # NoRet /\ pc' = pc /\ lastRet'.op = "discover"
                /\ FreshAt(cache, TableCacheKey(lastRet'.schemaName,
                                                lastRet'.tableName), now))
              => LET k == TableCacheKey(lastRet'.schemaName, lastRet'.tableName)
                 IN /\ lastRet'.result = Ok(cache[MapIndex(cache, k)].data)
                    /\ lastRet'.path = "cached"
                    /\ cache' = cache
                    /\ results' = results
      ]_vars

\* A call was answered from an entry stored at an earlier time.
C5_Witness ==
    /\ lastRet # NoRet /\ lastRet.op = "discover" /\ lastRet.path = "cached"
    /\ LET k == TableCacheKey(lastRet.schemaName, lastRet.tableName)
       IN /\ MapHas(cache, k)
          /\ TimestampOf(cache, k) < now
          /\ lastRet.result = Ok(cache[MapIndex(cache, k)].data)

FirstFailed(rs) ==
    IF \E i \in 1..Len(rs) : ~rs[i].success
    THEN CHOOSE i \in 1..Len(rs) :
            ~rs[i].success /\ \A j \in 1..(i - 1) : rs[j].success
    ELSE 0

\* C7: a call that went to the backend returns only when all six sub-fetches,
\* issued together, have settled; when some failed, the failure returned is
\* that of the first failed sub-fetch in the declared order (table type,
\* columns, constraints, indexes, policies, RLS), whatever the order in which
\* they settled.
C7_FirstFailureInDeclaredOrder ==
    (lastRet # NoRet /\ lastRet.op = "discover"
        /\ lastRet.path \in {"fetched", "failed"})
      => /\ Len(lastRet.results) = Cardinality(SubFetches)
         /\ \A i \in SubFetches : lastRet.results[i] # Pending
         /\ FirstFailed(lastRet.results) # 0
              => lastRet.result = lastRet.results[FirstFailed(lastRet.results)]

\* The column fetch settled first and failed, the table-type fetch settled
\* after it and failed too, and the table-type failure was returned.
C7_Witness ==
    /\ lastRet # NoRet /\ lastRet.op = "discover" /\ lastRet.path = "failed"
    /\ lastRet.order = <<ColumnsFetch, TableTypeFetch>>
    /\ ~lastRet.results[ColumnsFetch].success
    /\ ~lastRet.results[TableTypeFetch].success
    /\ lastRet.result = lastRet.results[TableTypeFetch]
    /\ lastRet.result # lastRet.results[ColumnsFetch]

\* C8: when any sub-fetch failed the call returns a failure and writes
\* nothing to the cache; the cache gains or changes an entry under a
\* table-metadata key only in the step of a call whose six sub-fetches all
\* succeeded, and that entry is the metadata the call returns.
C8_AllOrNothing ==
    [][ /\ \A p \in Procs :
              (pc[p] = "awaiting" /\ pc'[p] = "idle" /\ call[p].op = "discover")
                => LET k == TableCacheKey(call[p].schemaName, call[p].tableName)
                   IN IF FirstFailed(results[p]) # 0
                      THEN /\ lastRet'.result.success = FALSE
                           /\ cache' = cache
                      ELSE /\ lastRet'.result.success = TRUE
                           /\ lastRet'.result.data.table_name = call[p].tableName
                           /\ lastRet'.result.data.columns = results[p][ColumnsFetch].data
                           /\ MapHas(cache', k)
                           /\ cache'[MapIndex(cache', k)] =
                                 CacheEntry(k, lastRet'.result.data, now)
        /\ \A n \in TableNames, s \in SchemaNames :
              LET k == TableCacheKey(s, n)
              IN (MapHas(cache', k)
                    /\ (~MapHas(cache, k)
                          \/ cache'[MapIndex(cache', k)] # cache[MapIndex(cache, k)]))
                   => \E p \in Procs :
                         /\ pc[p] = "awaiting" /\ pc'[p] = "idle"
                         /\ call[p] = [op |-> "discover", tableName |-> n,
                                       schemaName |-> s]
                         /\ FirstFailed(results[p]) = 0
      ]_vars

\* A call failed although its column fetch had delivered columns, and the
\* cache holds nothing under its key.
C8_Witness ==
    /\ lastRet # NoRet /\ lastRet.op = "discover" /\ lastRet.path = "failed"
    /\ lastRet.results[ColumnsFetch].success
    /\ Len(lastRet.results[ColumnsFetch].data) > 0
    /\ ~MapHas(cache, TableCacheKey(lastRet.schemaName, lastRet.tableName))

----------------------------------------------------------------------------
(* Claims about the preflight validator (SpecValidate) *)

\* validateQueryConfig returned for a rest config whose metadata was
\* discovered and whose select is an object.
RestValidated ==
    /\ request # NoRequest
    /\ request.stage = "done"
    /\ request.discovered # NoRet
    /\ request.discovered.success
    /\ request.config.select.defined

\* The error a filter list must produce first: that of its first filter with
\* any error; a missing column, else the operator error, else the value error.
FilterHasError(f, columns) ==
    \/ ~ColumnMapHas(columns, f.column)
    \/ ~isOperatorCompatibleWithType(f.operator, ColumnMapGet(columns, f.column).data_type)
    \/ /\ f.operator # "is"
       /\ ~isValueCompatibleWithType(f.value, ColumnMapGet(columns, f.column).data_type)

FirstFilterError(filters, columns) ==
    LET i == CHOOSE i \in 1..Len(filters) :
                 /\ FilterHasError(filters[i], columns)
                 /\ \A j \in 1..(i - 1) : ~FilterHasError(filters[j], columns)
        f == filters[i]
    IN IF ~ColumnMapHas(columns, f.column)
       THEN FilterColumnError(f, columns)
       ELSE IF ~isOperatorCompatibleWithType(f.operator,
                                             ColumnMapGet(columns, f.column).data_type)
       THEN FilterOperatorError(f, ColumnMapGet(columns, f.column))
       ELSE FilterValueError(f, ColumnMapGet(columns, f.column))

\* C9: preflight validation of a rest config returns the first error in the
\* order projection, filters (list order; for one filter the operator error
\* before the value error), order-by, pagination, policy: an error of a later
\* group is returned only when every earlier group has none, and the
\* metadata is returned only when no group has any.
C9_FirstErrorOrder ==
    RestValidated =>
        LET config == request.config
            metadata == request.discovered.data
            projection == validateAliasFirstSelect(config.select.value, metadata.columns)
            filters == IF config.filters.defined
                       THEN validateFilters(config.filters.value, metadata.columns)
                       ELSE <<>>
            orderBy == IF config.orderBy.defined
                       THEN validateOrderBy(config.orderBy.value, metadata.columns)
                       ELSE <<>>
            pagination == validatePagination(config, request.mode)
            policy == metadata.has_rls_enabled /\ Len(metadata.policies) = 0
        IN /\ validation =
                 IF projection # <<>> THEN [success |-> FALSE, error |-> projection[1]]
                 ELSE IF filters # <<>> THEN [success |-> FALSE, error |-> filters[1]]
                 ELSE IF orderBy # <<>> THEN [success |-> FALSE, error |-> orderBy[1]]
                 ELSE IF pagination # <<>> THEN [success |-> FALSE, error |-> pagination[1]]
                 ELSE IF policy
                      THEN [success |-> FALSE, error |-> PolicyError(config, metadata)]
                 ELSE Ok(metadata)
           /\ filters # <<>> =>
                 filters[1] = FirstFilterError(config.filters.value, metadata.columns)

\* The first filter has an operator and a value error, order-by, pagination
\* and policy have errors too, the projection has none: the operator error
\* of the filter was returned.
C9_Witness ==
    /\ RestValidated
    /\ LET config == request.config
           metadata == request.discovered.data
       IN /\ validateAliasFirstSelect(config.select.value, metadata.columns) = <<>>
          /\ config.filters.defined
          /\ Len(config.filters.value) = MaxFilters
          /\ config.filters.value[1] = Filter(<<"n","u">>, "like", JsString(<<"x">>))
          /\ config.orderBy = Defined(<< [column |-> MissingColumn] >>)
          /\ validatePagination(config, request.mode) # <<>>
          /\ metadata.has_rls_enabled /\ Len(metadata.policies) = 0
          /\ ~validation.success
          /\ validation.error =
                FilterOperatorError(config.filters.value[1], ValidatorColumns[2])

\* C10: for every operator and every type family the OPERATOR_COMPATIBILITY
\* table does not list for it, a filter with that operator on an existing
\* column of that family makes validateFilters produce the config error
\* that cites the operator and the column type, and validation fails; that
\* error is the one returned when nothing precedes it.
C10_UnlistedPairRejected ==
    (RestValidated /\ request.config.filters.defined) =>
        LET config == request.config
            metadata == request.discovered.data
            fs == config.filters.value
        IN \A i \in 1..Len(fs), j \in 1..Len(SampleTypes) :
              (/\ fs[i].column = SampleTypes[j].column_name
               /\ fs[i].operator \in FilterOperators
               /\ SampleTypes[j].family \notin OPERATOR_COMPATIBILITY[fs[i].operator])
                => /\ \E e \in Range(validateFilters(fs, metadata.columns)) :
                         /\ e.type = "config"
                         /\ e.details = [operator |-> fs[i].operator,
                                         columnType |-> SampleTypes[j].data_type,
                                         columnName |-> fs[i].column]
                   /\ ~validation.success
                   /\ (/\ i = 1
                       /\ validateAliasFirstSelect(config.select.value,
                                                   metadata.columns) = <<>>)
                        => /\ validation.error.type = "config"
                           /\ validation.error.message =
                                 [text |-> "Operator ${filter.operator} is not compatible with column type ${column.data_type}",
                                  operator |-> fs[i].operator,
                                  columnType |-> SampleTypes[j].data_type]

\* like on the numeric column, with a value the column accepts, was rejected
\* for its operator.
C10_Witness ==
    /\ RestValidated
    /\ request.config.filters = Defined(<< Filter(<<"n","u">>, "like", JsNumber) >>)
    /\ ~validation.success
    /\ validation.error.type = "config"
    /\ validation.error.details = [operator |-> "like",
                                   columnType |-> <<"i","n","t","e","g","e","r">>,
                                   columnName |-> <<"n","u">>]

\* C11: a filter on a column whose raw type classifies as unknown does not
\* fail validation because of its operator or its value: for every operator
\* and every value the filter contributes no operator error and no value
\* error.
C11_UnknownPermissive ==
    (RestValidated /\ request.config.filters.defined) =>
        LET metadata == request.discovered.data
            fs == request.config.filters.value
        IN \A i \in 1..Len(fs), j \in 1..Len(SampleTypes) :
              (/\ fs[i].column = SampleTypes[j].column_name
               /\ SampleTypes[j].family = "unknown"
               /\ fs[i].operator \in FilterOperators)
                => /\ getColumnTypeFamily(SampleTypes[j].data_type) = "unknown"
                   /\ isValueCompatibleWithType(fs[i].value, SampleTypes[j].data_type)
                   /\ isOperatorCompatibleWithType(fs[i].operator, SampleTypes[j].data_type)
                   /\ FilterErrors(fs[i], metadata.columns) = <<>>

\* validateQueryConfig returned after running validatePagination: for a sql
\* config, or for a rest config whose metadata was discovered.
PaginationValidated ==
    /\ request # NoRequest
    /\ request.stage = "done"
    /\ request.config # NotAnObject
    /\ \/ request.config.kind = "sql"
       \/ request.config.kind = "rest" /\ RestValidated

\* C13: in rest and in sql validation, a requested limit above the cap of
\* the mode (500 normal, 20 preview) is a config error although clampLimit
\* would return the cap, a requested limit below 1 and a requested offset
\* below 0 are config errors, and an absent limit or offset produces no
\* error of its own.
C13_StrictPagination ==
    PaginationValidated =>
        LET config == request.config
            mode == request.mode
            cap == IF mode = "preview" THEN 20 ELSE 500
            errors == Range(validatePagination(config, mode))
            limitErrors == { e \in errors :
                                e.message.text \in
                                  { "Limit ${config.limit} exceeds maximum allowed ${maxLimit} for ${mode} mode",
                                    "Limit must be at least 1" } }
            offsetErrors == { e \in errors : e.message.text = "Offset must be non-negative" }
        IN /\ \A e \in errors : e.type = "config"
           /\ errors # {} => ~validation.success
           /\ (config.limit.defined
                 /\ \/ config.limit.value.class = "Infinity"
                    \/ /\ config.limit.value.class = "finite"
                       /\ config.limit.value.halves > 2 * cap)
                => /\ config.limit.value.class = "finite"
                        => clampLimit(config.limit, mode) = cap
                   /\ \E e \in limitErrors :
                         e.details = [requestedLimit |-> config.limit.value,
                                      maxLimit |-> cap, mode |-> mode,
                                      effectiveLimit |-> clampLimit(config.limit, mode)]
           /\ (config.limit.defined
                 /\ \/ config.limit.value.class = "-Infinity"
                    \/ /\ config.limit.value.class = "finite"
                       /\ config.limit.value.halves < 2)
                => \E e \in limitErrors : e.message.text = "Limit must be at least 1"
           /\ (config.offset.defined
                 /\ \/ config.offset.value.class = "-Infinity"
                    \/ /\ config.offset.value.class = "finite"
                       /\ config.offset.value.halves < 0)
                => offsetErrors # {}
           /\ ~config.limit.defined => limitErrors = {}
           /\ ~config.offset.defined => offsetErrors = {}

\* Preview mode, a sql query with a limit of 21: below the normal cap, above
\* the preview cap; the limit error was returned with the clamped value 20.
C13_Witness ==
    /\ PaginationValidated
    /\ request.mode = "preview"
    /\ request.config.kind = "sql"
    /\ request.config.limit = Defined(JsHalves(2 * (QUERY_PREVIEW_LIMIT + 1)))
    /\ ~validation.success
    /\ validation.error.type = "config"
    /\ validation.error.details =
          [requestedLimit |-> JsHalves(42), maxLimit |-> 20, mode |-> "preview",
           effectiveLimit |-> 20]

\* validateQueryConfig returned for a rest config whose discovered metadata
\* has row security enabled and no policy.
RlsWithoutPolicies ==
    /\ request # NoRequest
    /\ request.stage = "done"
    /\ request.discovered # NoRet
    /\ request.discovered.success
    /\ request.discovered.data.has_rls_enabled
    /\ Len(request.discovered.data.policies) = 0

\* C15: a rest query on an object with row security enabled and zero
\* policies never validates successfully; when its select, filters, order-by
\* and pagination produce no error, the error returned has type permission
\* and its message names the object.
C15_RlsWithoutPoliciesRejected ==
    RlsWithoutPolicies =>
        LET config == request.config
            columns == request.discovered.data.columns
        IN /\ ~validation.success
           /\ (/\ config.select.defined
               /\ validateAliasFirstSelect(config.select.value, columns) = <<>>
               /\ config.filters.defined
                    => validateFilters(config.filters.value, columns) = <<>>
               /\ config.orderBy.defined
                    => validateOrderBy(config.orderBy.value, columns) = <<>>
               /\ validatePagination(config, request.mode) = <<>>)
                => /\ validation.error.type = "permission"
                   /\ validation.error.message.from = config.from
                   /\ validation.error.details.tableName = config.from
                   /\ validation.error.details.policyCount = 0

\* A query with a clean select, a passing filter and no pagination was
\* refused with the permission error.
C15_Witness ==
    /\ RlsWithoutPolicies
    /\ request.config.select.defined
    /\ request.config.filters.defined
    /\ Len(request.config.filters.value) > 0
    /\ ~request.config.limit.defined
    /\ ~validation.success
    /\ validation.error.type = "permission"
    /\ validation.error.message.from = request.config.from

\* C16: validateQueryConfig on a sql config returns without calling
\* discoverTableMetadata: the call never awaits a discovery, no discovery
\* result is bound, the cache and the discovery calls are left as they were,
\* and a successful result carries the empty metadata.
C16_SqlNoDiscovery ==
    [][ (/\ request # NoRequest
         /\ request.config # NotAnObject
         /\ request.config.kind = "sql")
          => /\ request'.stage = "done"
             /\ request'.discovered = NoRet
             /\ UNCHANGED <<cache, cacheVars, discVars>>
             /\ validation' # NoValidation
             /\ validation'.success => validation' = Ok(EmptyMetadata) ]_vars

\* A sql config was validated successfully, with the empty metadata and no
\* discovery result.
C16_Witness ==
    /\ request # NoRequest
    /\ request.stage = "done"
    /\ request.config # NotAnObject
    /\ request.config.kind = "sql"
    /\ request.discovered = NoRet
    /\ validation = Ok(EmptyMetadata)
    /\ cache = <<>>

\* validateQueryConfig returned for a sql config.
SqlValidated ==
    /\ request # NoRequest
    /\ request.stage = "done"
    /\ request.config # NotAnObject
    /\ request.config.kind = "sql"
    /\ "rawSql" \in DOMAIN request.config

\* C17: a sql config validates exactly when its trimmed, lower-cased text
\* begins with select, contains none of insert, update, delete, drop, create,
\* alter, truncate, and its pagination is valid; otherwise the error returned
\* is a config error, the first of: the SELECT-only error, the error of the
\* first keyword of that list found in the text, the first pagination error.
C17_SqlFirstError ==
    SqlValidated =>
        LET sql == toLowerCase(trim(request.config.rawSql))
            keywords == << <<"i","n","s","e","r","t">>, <<"u","p","d","a","t","e">>,
                           <<"d","e","l","e","t","e">>, <<"d","r","o","p">>,
                           <<"c","r","e","a","t","e">>, <<"a","l","t","e","r">>,
                           <<"t","r","u","n","c","a","t","e">> >>
            isSelect == Len(sql) >= 6 /\ SubSeq(sql, 1, 6) = <<"s","e","l","e","c","t">>
            found == { i \in 1..7 :
                         \E k \in 0..(Len(sql) - Len(keywords[i])) :
                            SubSeq(sql, k + 1, k + Len(keywords[i])) = keywords[i] }
            pagination == validatePagination(request.config, request.mode)
        IN /\ validation.success <=> (isSelect /\ found = {} /\ pagination = <<>>)
           /\ ~validation.success =>
                 /\ validation.error.type = "config"
                 /\ ~isSelect =>
                       validation.error.message.text = "SQL queries must be SELECT-only"
                 /\ (isSelect /\ found # {}) =>
                       /\ validation.error.message.text
                             = "SQL query contains forbidden keyword: ${keyword}"
                       /\ validation.error.details.keyword
                             = keywords[CHOOSE i \in found : \A j \in found : i <= j]
                 /\ (isSelect /\ found = {}) => validation.error = pagination[1]

\* A text that begins with select and holds drop before insert, with a limit
\* below 1, was refused for insert.
C17_Witness ==
    /\ SqlValidated
    /\ request.config.rawSql
          = <<"S","e","l","e","c","t"," ","D","R","O","P"," ","i","n","s","e","r","t">>
    /\ request.config.limit.defined
    /\ validatePagination(request.config, request.mode) # <<>>
    /\ ~validation.success
    /\ validation.error.details.keyword = <<"i","n","s","e","r","t">>

----------------------------------------------------------------------------
(* Claims about the helper functions (SpecPure) *)

\* The substring groups in their priority order, as the specification of
\* the classification lists them.
FamilyGroups ==
    << [family |-> "text",
        substrings |-> { <<"t","e","x","t">>, <<"v","a","r","c","h","a","r">>,
                         <<"c","h","a","r">> }],
       [family |-> "numeric",
        substrings |-> { <<"i","n","t">>, <<"n","u","m","e","r","i","c">>,
                         <<"d","e","c","i","m","a","l">>, <<"f","l","o","a","t">>,
                         <<"d","o","u","b","l","e">>, <<"r","e","a","l">> }],
       [family |-> "boolean", substrings |-> { <<"b","o","o","l">> }],
       [family |-> "temporal",
        substrings |-> { <<"t","i","m","e","s","t","a","m","p">>, <<"d","a","t","e">>,
                         <<"t","i","m","e">> }],
       [family |-> "uuid", substrings |-> { <<"u","u","i","d">> }],
       [family |-> "json", substrings |-> { <<"j","s","o","n">> }],
       [family |-> "array", substrings |-> { <<"a","r","r","a","y">>, <<"[","]">> }] >>

GroupMatches(g, dataType) ==
    \E sub \in FamilyGroups[g].substrings : Includes(toLowerCase(dataType), sub)

\* C12: getColumnTypeFamily returns, for every raw type string, exactly one
\* of the 8 families: that of the first group in the order text, numeric,
\* boolean, temporal, uuid, json, array with a substring in the lower-cased
\* type, and unknown when no group has one.
C12_ClassificationPriority ==
    (args.fn = "getColumnTypeFamily" /\ ret # NoRet) =>
        /\ ret.value \in { FamilyGroups[g].family : g \in DOMAIN FamilyGroups }
                            \cup {"unknown"}
        /\ \A g \in DOMAIN FamilyGroups :
              (GroupMatches(g, args.dataType)
                 /\ \A h \in 1..(g - 1) : ~GroupMatches(h, args.dataType))
                => ret.value = FamilyGroups[g].family
        /\ (\A g \in DOMAIN FamilyGroups : ~GroupMatches(g, args.dataType))
              => ret.value = "unknown"

\* A type with a numeric substring before a text one, in mixed case, was
\* classified as text.
C12_Witness ==
    /\ args.fn = "getColumnTypeFamily"
    /\ args.dataType = <<"I","n","t","T","E","X","T">>
    /\ ret # NoRet
    /\ ret.value = "text"

\* C14: clampLimit returns, in each mode, the mode default (50 normal, 20
\* preview) for undefined and for every non-finite value, 1 for every number
\* below 1, the mode max (500 normal, 20 preview) for every number above it,
\* and the floor of the number otherwise; the value does not depend on
\* whether validatePagination ran on the limit first.
C14_ClampTotal ==
    (args # NoRequest /\ args.fn = "clampLimit" /\ ret # NoRet) =>
        LET l == args.requestedLimit
            default == IF args.mode = "preview" THEN 20 ELSE 50
            max == IF args.mode = "preview" THEN 20 ELSE 500
        IN /\ ret.value \in 1..max
           /\ ~l.defined => ret.value = default
           /\ (l.defined /\ l.value.class # "finite") => ret.value = default
           /\ (l.defined /\ l.value.class = "finite") =>
                 /\ l.value.halves < 2 => ret.value = 1
                 /\ l.value.halves > 2 * max => ret.value = max
                 /\ (l.value.halves >= 2 /\ l.value.halves <= 2 * max) =>
                       /\ 2 * ret.value <= l.value.halves
                       /\ l.value.halves < 2 * (ret.value + 1)

\* After validatePagination ran on it, the limit 20.5 was clamped to 20 in
\* normal mode.
C14_Witness ==
    /\ args # NoRequest
    /\ args.fn = "clampLimit"
    /\ args.validated
    /\ args.mode = "normal"
    /\ args.requestedLimit = Defined(JsHalves(41))
    /\ ret # NoRet
    /\ ret.value = 20

----------------------------------------------------------------------------
(* Claims about the executors and QueryRunner (SpecRun) *)

\* C18: when validateQueryConfig fails, QueryRunner.execute returns data
\* null with an error and calls neither executor; every query-execution call
\* sent to the backend carries the config and mode of a validation that
\* succeeded before it.
C18_NoExecutionWithoutValidation ==
    /\ \A i \in DOMAIN backend :
          /\ request.stage \in {"executing", "returned"}
          /\ validation # NoValidation
          /\ validation.success
          /\ backend[i].config = request.config
          /\ backend[i].mode = request.mode
          /\ backend[i].source = request.config.kind
    /\ (/\ request # NoRequest
        /\ request.stage = "returned"
        /\ ~validation.success)
          => /\ backend = <<>>
             /\ runResult.data = Null
             /\ runResult.error # Null

\* A rest query whose filter names a missing column was refused without a
\* call to the backend.
C18_Witness ==
    /\ request # NoRequest
    /\ request.stage = "returned"
    /\ request.config # NotAnObject
    /\ request.config.kind = "rest"
    /\ request.discovered # NoRet
    /\ request.discovered.success
    /\ ~validation.success
    /\ backend = <<>>
    /\ runResult.data = Null
    /\ runResult.error.hint = Defined("config")

\* C19: a discovery failure of type t is returned by validateQueryConfig as
\* an error of type t, and by QueryRunner.execute as an error with hint t
\* and code t in upper case.
C19_ClassificationPreserved ==
    (/\ request # NoRequest
     /\ request.stage \in {"done", "returned"}
     /\ request.discovered # NoRet
     /\ ~request.discovered.success)
      => LET t == request.discovered.error.type
         IN /\ t \in {"config", "permission", "transport", "server"}
            /\ ~validation.success
            /\ validation.error.type = t
            /\ request.stage = "returned" =>
                  /\ runResult.data = Null
                  /\ runResult.error.hint = Defined(t)
                  /\ runResult.error.code =
                        CASE t = "config" -> <<"C","O","N","F","I","G">>
                          [] t = "permission" -> <<"P","E","R","M","I","S","S","I","O","N">>
                          [] t = "transport" -> <<"T","R","A","N","S","P","O","R","T">>
                          [] t = "server" -> <<"S","E","R","V","E","R">>

\* A failed column fetch, a server failure, came back with hint server and
\* code SERVER.
C19_Witness ==
    /\ request # NoRequest
    /\ request.stage = "returned"
    /\ request.discovered # NoRet
    /\ ~request.discovered.success
    /\ request.discovered.error.type = "server"
    /\ runResult.error.hint = Defined("server")
    /\ runResult.error.code = <<"S","E","R","V","E","R">>

\* C20: an executor that returns an error returns data null; when the
\* backend reported the failure the error is classified server and carries
\* the backend's code, message and hint as its details; when the call threw
\* it is classified transport.
C20_ExecutorErrorsClassified ==
    (/\ request # NoRequest
     /\ request.stage = "returned"
     /\ backend # <<>>)
      => LET answer == backend[Len(backend)].answer
         IN /\ answer.kind = "throw" =>
                  /\ runResult.data = Null
                  /\ runResult.error.hint = Defined("transport")
                  /\ runResult.error.code = <<"T","R","A","N","S","P","O","R","T">>
            /\ answer.kind = "error" =>
                  /\ runResult.data = Null
                  /\ runResult.error.hint = Defined("server")
                  /\ runResult.error.code = <<"S","E","R","V","E","R">>
                  /\ runResult.error.details =
                        [json |-> [code |-> answer.error.code,
                                   message |-> answer.error.message,
                                   hint |-> answer.error.hint]]

\* A result with exactly one of data and error set.
OneOfDataAndError(r) == (r.data = Null) # (r.error = Null)

\* C21: every result of QueryRunner.execute and of the two executors has
\* exactly one of data and error non-null: rows (the empty array when the
\* backend sent no payload) with a null error on success, null data with an
\* error when validation or execution failed.
C21_DataXorError ==
    (request # NoRequest /\ request.stage = "returned") =>
        /\ OneOfDataAndError(runResult)
        /\ ~validation.success => (runResult.data = Null /\ backend = <<>>)
        /\ backend # <<>> =>
              LET answer == backend[Len(backend)].answer
                  executed == IF request.config.kind = "rest"
                              THEN SupabaseRestSource_execute(answer)
                              ELSE SupabaseSqlSource_execute(answer)
              IN /\ runResult = executed
                 /\ answer.kind \in {"error", "throw"} =>
                       (runResult.data = Null /\ runResult.error # Null)
                 /\ answer.kind = "nodata" =>
                       (runResult.data = [rows |-> <<>>] /\ runResult.error = Null)
                 /\ answer.kind = "data" =>
                       (runResult.data = [rows |-> answer.data] /\ runResult.error = Null)

\* The backend answered a rest query with no payload and no error, and the
\* call returned the empty array.
C21_Witness ==
    /\ request # NoRequest
    /\ request.stage = "returned"
    /\ backend # <<>>
    /\ backend[Len(backend)].source = "rest"
    /\ backend[Len(backend)].answer.kind = "nodata"
    /\ runResult.data = [rows |-> <<>>]
    /\ runResult.error = Null

----------------------------------------------------------------------------
(* Further claims about listAvailableTables (SpecOne) *)

\* ^[A-Za-z_][A-Za-z0-9_]*$
MatchesAllowList(name) ==
    /\ Len(name) >= 1
    /\ \A i \in 1..Len(name) :
          \/ name[i] = "_"
          \/ \E j \in 1..26 : name[i] \in {LowerLetters[j], UpperLetters[j]}
          \/ (i > 1 /\ name[i] \in DigitChars)

\* C26: every name in a successful result of listAvailableTables and in a
\* list stored under "available_tables:{schema}" matches the allow-list
\* pattern; a failed listing leaves no list stored; a listing is answered
\* from a stored unexpired list, an empty one included, and its query is in
\* flight only while no list is stored.
C26_ListedNamesAllowed ==
    /\ \A s \in SchemaNames :
          MapHas(cache, ListCacheKey(s)) =>
              \A i \in DOMAIN cache[MapIndex(cache, ListCacheKey(s))].data.names :
                  MatchesAllowList(cache[MapIndex(cache, ListCacheKey(s))].data.names[i])
    /\ \A p \in Procs :
          pc[p] = "listing" => ~MapHas(cache, ListCacheKey(call[p].schemaName))
    /\ (lastRet # NoRet /\ lastRet.op = "list") =>
          LET k == ListCacheKey(lastRet.schemaName)
          IN /\ lastRet.result.success =>
                   /\ \A i \in DOMAIN lastRet.result.data.names :
                         MatchesAllowList(lastRet.result.data.names[i])
                   /\ FreshAt(cache, k, now)
                   /\ lastRet.result.data = cache[MapIndex(cache, k)].data
                   /\ lastRet.path \in {"cached", "fetched"}
             /\ ~lastRet.result.success =>
                   /\ ~MapHas(cache, k)
                   /\ lastRet.path = "failed"

\* A listing that found no table stored the empty list, and a later call was
\* answered from it.
C26_Witness ==
    /\ lastRet # NoRet
    /\ lastRet.op = "list"
    /\ lastRet.path = "cached"
    /\ lastRet.result = Ok([names |-> <<>>])
    /\ TimestampOf(cache, ListCacheKey(lastRet.schemaName)) < now

----------------------------------------------------------------------------
(* Further claims about the executors and QueryRunner (SpecRun) *)

\* How a backend that names output fields by alias reads a projection
\* string: its fragments are separated by the commas outside parentheses,
\* and the key of a fragment is what stands before its first colon.
ProjectionCuts(s) ==
    { k \in 1..Len(s) :
        /\ s[k] = ","
        /\ Cardinality({ j \in 1..(k - 1) : s[j] = "(" })
             = Cardinality({ j \in 1..(k - 1) : s[j] = ")" }) }

ProjectionFragments(s) ==
    LET bounds == ProjectionCuts(s) \cup {0, Len(s) + 1}
    IN { SubSeq(s, a + 1, b - 1) :
           <<a, b>> \in { ab \in bounds \X bounds :
                            /\ ab[1] < ab[2]
                            /\ \A c \in bounds : ~(ab[1] < c /\ c < ab[2]) } }

FragmentKey(f) ==
    IF \E k \in 1..Len(f) : f[k] = ":"
    THEN SubSeq(f, 1, (CHOOSE k \in 1..Len(f) :
                          f[k] = ":" /\ \A j \in 1..(k - 1) : f[j] # ":") - 1)
    ELSE f

\* C27: the projection string of every rest query sent to the backend
\* consists of exactly one alias:expression fragment per alias of the select
\* map, so the keys a backend naming fields by alias returns are the aliases
\* of select.
C27_ProjectionRoundTrip ==
    \A i \in DOMAIN backend :
        backend[i].source = "rest" =>
            LET select == backend[i].config.select.value
                fragments == ProjectionFragments(backend[i].select)
            IN /\ Cardinality(ProjectionCuts(backend[i].select)) + 1 = Len(select)
               /\ fragments = { select[j].alias \o <<":">> \o select[j].expression :
                                  j \in DOMAIN select }
               /\ { FragmentKey(f) : f \in fragments }
                    = { select[j].alias : j \in DOMAIN select }

----------------------------------------------------------------------------
(* Further claims about the preflight validator (SpecValidate) *)

\* C23: a config malformed in its own shape is refused with a config error:
\* one that is not an object, one with an unrecognized kind, a rest config
\* without select (its metadata discovered) and a sql config without rawSql;
\* validateQueryConfig returns a transport error only when a backend call of
\* the discovery failed to obtain a response.
C23_MalformedIsConfigError ==
    (request # NoRequest /\ request.stage = "done") =>
        LET config == request.config
            malformed ==
               \/ config = NotAnObject
               \/ config.kind \notin {"rest", "sql"}
               \/ /\ config.kind = "rest"
                  /\ ~config.select.defined
                  /\ request.discovered.success
               \/ config.kind = "sql" /\ "rawSql" \notin DOMAIN config
        IN /\ malformed => (~validation.success /\ validation.error.type = "config")
           /\ (~validation.success /\ validation.error.type = "transport")
                => /\ request.discovered # NoRet
                   /\ ~request.discovered.success
                   /\ request.discovered.error.type = "transport"

\* C28: the errors of validateQueryConfig do not depend on the values of the
\* filters beyond their typeof and the outcome of each check: replacing the
\* value of a filter by another of the same typeof that the value check
\* treats alike leaves the returned result the same; and the details of an
\* error about a sql text hold its first 100 characters and "...", no more.
C28_DetailsHideValues ==
    /\ (RestValidated /\ request.config.filters.defined) =>
          LET config == request.config
              columns == request.discovered.data.columns
              fs == config.filters.value
          IN \A i \in 1..Len(fs), v \in FilterValues :
                (/\ v.typeof = fs[i].value.typeof
                 /\ ColumnMapHas(columns, fs[i].column) =>
                       (isValueCompatibleWithType(v,
                            ColumnMapGet(columns, fs[i].column).data_type)
                        <=> isValueCompatibleWithType(fs[i].value,
                                ColumnMapGet(columns, fs[i].column).data_type)))
                  => ValidateFinish(
                        [config EXCEPT !.filters =
                            Defined([fs EXCEPT ![i] = [fs[i] EXCEPT !.value = v]])],
                        request.mode, request.discovered) = validation
    /\ (SqlValidated /\ ~validation.success /\ "sql" \in DOMAIN validation.error.details) =>
          LET rawSql == request.config.rawSql
              shown == validation.error.details.sql
          IN /\ Len(shown) <= 103
             /\ shown = [i \in 1..(IF Len(rawSql) < 100 THEN Len(rawSql) ELSE 100) |-> rawSql[i]]
                           \o <<".", ".", ".">>

\* A uuid column was filtered by a string that is not a uuid; the error shows
\* the typeof of the value, and another such string would give the same.
C28_Witness ==
    /\ RestValidated
    /\ request.config.filters.defined
    /\ Len(request.config.filters.value) = 1
    /\ request.config.filters.value[1].value = JsString(<<"x">>)
    /\ request.config.filters.value[1].operator = "eq"
    /\ ~validation.success
    /\ validation.error.message.text
          = "Filter value is not compatible with column type ${column.data_type}"
    /\ validation.error.details.value = "string"

\* A text of 120 characters was refused and the error shows 100 of them.
C28_WitnessPreview ==
    /\ SqlValidated
    /\ Len(request.config.rawSql) = 120
    /\ ~validation.success
    /\ Len(validation.error.details.sql) = 103

\* C22: a QueryRunner.execute call that returned has written exactly one
\* record, whatever the outcome, and the record holds the name of the
\* object, the row count (0 when the call failed) and the duration.
C22_OneObservabilityRecord ==
    (request # NoRequest /\ request.stage = "returned") =>
        /\ Len(log) = 1
        /\ DOMAIN log[1] = {"tag", "table", "rowCount", "durationMs"}
        /\ request.config.kind = "rest" => log[1].table = request.config.from
        /\ runResult.data = Null => log[1].rowCount = 0
        /\ runResult.data # Null => log[1].rowCount = Len(runResult.data.rows)

----------------------------------------------------------------------------
(* Further claims about the helper functions (SpecPure) *)

\* C30: the range SupabaseRestSource.execute applies starts at
\* clampOffset(offset), which is never negative, and ends at start +
\* clampLimit(limit, mode) - 1; for every config, valid or not, it asks for
\* at least 1 row and at most the mode max (500 normal, 20 preview).
C30_RangeFromEffectiveValues ==
    (args # NoRequest /\ args.fn = "SupabaseRestSource.execute" /\ ret # NoRet) =>
        LET from == ret.value.range[1]
            to == ret.value.range[2]
            offset == args.config.offset
            max == IF args.mode = "preview" THEN 20 ELSE 500
        IN /\ from >= 0
           /\ (offset.defined /\ offset.value.class = "finite" /\ offset.value.halves >= 0)
                => (2 * from <= offset.value.halves /\ offset.value.halves < 2 * (from + 1))
           /\ ~(offset.defined /\ offset.value.class = "finite" /\ offset.value.halves >= 0)
                => from = 0
           /\ to = from + clampLimit(args.config.limit, args.mode) - 1
           /\ to - from + 1 >= 1
           /\ to - from + 1 <= max

\* A config with limit 1000 and offset -1.5, which validation would refuse,
\* was given the range 0..499 in normal mode.
C30_Witness ==
    /\ args # NoRequest
    /\ args.fn = "SupabaseRestSource.execute"
    /\ args.mode = "normal"
    /\ args.config.limit = Defined(JsHalves(2000))
    /\ args.config.offset = Defined(JsHalves(0 - 3))
    /\ ret # NoRet
    /\ ret.value.range = <<0, 499>>

----------------------------------------------------------------------------
(* Claims about QueryRunner.execute over discovery and its cache (SpecSession) *)

\* The call before call j that fetched the metadata of the same table last
\* (0 if there is none): with nothing but discoverTableMetadata writing the
\* cache, it is the call whose metadata a hit of call j is served.
LastFetchBefore(j) ==
    LET prior == { i \in 1..(j - 1) :
                     /\ history[i].path = "fetched"
                     /\ history[i].config.from = history[j].config.from }
    IN IF prior = {} THEN 0 ELSE CHOOSE i \in prior : \A k \in prior : k <= i

\* C24: a validateQueryConfig call whose table metadata was served from the
\* cache returns what the checks give on the metadata that was fetched fresh
\* for that table; for the same config and mode it returns the very result
\* of the call that fetched.
C24_CachedAsFetched ==
    \A j \in 1..Len(history) :
        history[j].path = "cached" =>
            LET i == LastFetchBefore(j)
            IN /\ i > 0
               /\ history[j].discovered = history[i].discovered
               /\ history[j].validation =
                     ValidateFinish(history[j].config, history[j].mode,
                                    history[i].discovered)
               /\ (history[j].config = history[i].config
                      /\ history[j].mode = history[i].mode)
                     => history[j].validation = history[i].validation

\* The same config was validated twice, on fetched and then on cached
\* metadata, and passed both times; the call in hand has returned.
C24_Witness ==
    /\ Len(history) = 2
    /\ history[1].path = "fetched"
    /\ history[2].path = "cached"
    /\ history[1].config = history[2].config
    /\ history[1].mode = history[2].mode
    /\ history[2].validation.success
    /\ request.stage = "returned"

\* A config that fails validation on cached metadata as it did on fetched.
C24_WitnessFailure ==
    /\ Len(history) = 2
    /\ history[1].path = "fetched"
    /\ history[2].path = "cached"
    /\ history[1].config = history[2].config
    /\ ~history[2].validation.success
    /\ history[2].validation.error.type = "config"


\* How far a QueryRunner.execute call has got.
StageRank(r) ==
    IF r = NoRequest THEN 0
    ELSE CASE r.stage = "called" -> 1
           [] r.stage = "discovering" -> 2
           [] r.stage = "done" -> 3
           [] r.stage = "executing" -> 4
           [] r.stage = "returned" -> 5

\* A step within one QueryRunner.execute call issues nothing twice and goes
\* on after no failure.
NoRetryStep ==
    LET newCall == StageRank(request') = 1 /\ StageRank(request) \in {0, 5}
        issues == results["p1"] = <<>> /\ results'["p1"] # <<>>
        sends == backend' # backend
    IN ~newCall =>
          /\ StageRank(request') >= StageRank(request)
          /\ issues => (StageRank(request) = 1 /\ StageRank(request') = 2
                        /\ Len(results'["p1"]) = Cardinality(SubFetches))
          /\ (results["p1"] # <<>> /\ results'["p1"] # <<>>) =>
                \A i \in SubFetches :
                    results["p1"][i] # Pending => results'["p1"][i] = results["p1"][i]
          /\ sends =>
                \/ /\ StageRank(request) = 3 /\ StageRank(request') = 4
                   /\ backend = <<>> /\ Len(backend') = 1
                \/ /\ StageRank(request) = 4 /\ StageRank(request') = 5
                   /\ Len(backend') = 1
                   /\ backend[1].answer = Pending
                   /\ backend' = [backend EXCEPT ![1].answer = backend'[1].answer]
          /\ (StageRank(request') = 3 /\ StageRank(request) < 3
                /\ request'.discovered # NoRet /\ ~request'.discovered.success) =>
                /\ ~validation'.success
                /\ validation'.error.type = request'.discovered.error.type
          /\ (StageRank(request) = 3 /\ ~validation.success) =>
                /\ StageRank(request') \in {3, 5}
                /\ ~sends /\ ~issues
                /\ StageRank(request') = 5 => (runResult'.data = Null /\ runResult'.error # Null)
          /\ StageRank(request) = 4 => StageRank(request') \in {4, 5}
          /\ StageRank(request) = 5 =>
                (request' = request /\ ~sends /\ ~issues /\ runResult' = runResult)

\* C25: within one QueryRunner.execute call each of the six discovery
\* sub-fetches is issued at most once and the query-execution call at most
\* once; after a discovery, validation or transport failure the call only
\* returns, issuing nothing more.
C25_NoRetry == [][NoRetryStep]_vars

\* A call whose discovery failed with a transport error has returned that
\* error without a query-execution call.
C25_Witness ==
    /\ StageRank(request) = 5
    /\ history # <<>>
    /\ history[Len(history)].path = "failed"
    /\ request.discovered.error.type = "transport"
    /\ backend = <<>>
    /\ runResult.data = Null
    /\ runResult.error.hint = Defined("transport")

\* A call whose query-execution call threw has returned the transport error,
\* with the one call it made.
C25_WitnessExecution ==
    /\ StageRank(request) = 5
    /\ Len(backend) = 1
    /\ backend[1].answer.kind = "throw"
    /\ runResult.error.hint = Defined("transport")


\* A QueryRunner.execute call is in flight.
InFlight == StageRank(request) \in 1..4

\* A step cannot take a call past an await whose backend call is pending:
\* nothing times out.
WaitsForBackend ==
    /\ (StageRank(request) = 2 /\ ~Settled(results["p1"])) =>
          (StageRank(request') = 2 /\ runResult' = runResult)
    /\ (StageRank(request) = 4 /\ backend'[Len(backend')].answer = Pending) =>
          (StageRank(request') = 4 /\ runResult' = runResult)

\* C29: when every issued backend call settles, every QueryRunner.execute
\* call returns, and what it returns is a result of data and error, never an
\* exception; while a backend call is unsettled the call stays pending.
C29_EventuallyReturns ==
    /\ InFlight ~> (StageRank(request) = 5)
    /\ [](StageRank(request) = 5 => DOMAIN runResult = {"data", "error"})
    /\ [](InFlight => runResult = NoRet)
    /\ [][WaitsForBackend]_vars

\* A call that awaited discovery sub-fetches and its query-execution call has
\* returned rows.
C29_Witness ==
    /\ StageRank(request) = 5
    /\ history # <<>>
    /\ history[Len(history)].path = "fetched"
    /\ Len(backend) = 1
    /\ backend[1].answer.kind = "data"
    /\ runResult.error = Null
    /\ Len(runResult.data.rows) = 1

----------------------------------------------------------------------------
(* Further claims about QueryRunner.execute (SpecRun) *)

\* C31: when a rest config with a requested limit L and offset O passed
\* validation, the range the executor sends starts at O and has L rows: the
\* effective limit equals L and the effective offset equals O.
C31_ValidatedNotClamped ==
    (/\ request # NoRequest
     /\ request.stage \in {"executing", "returned"}
     /\ backend # <<>>
     /\ backend[Len(backend)].source = "rest"
     /\ request.config.limit.defined
     /\ request.config.offset.defined) =>
        LET range == backend[Len(backend)].range
            L == request.config.limit.value
            O == request.config.offset.value
        IN /\ isFinite(L) /\ 2 * (range[2] - range[1] + 1) = L.halves
           /\ isFinite(O) /\ 2 * range[1] = O.halves


\* A string is empty or holds whitespace only.
Blank(s) == \A i \in 1..Len(s) : s[i] \in {" ", "\t", "\n"}

HasChar(s, c) == \E i \in 1..Len(s) : s[i] = c

\* What projection validation is to reject in one alias:expression entry.
EntryRejected(entry, columns) ==
    \/ Blank(entry.alias)
    \/ Blank(entry.expression)
    \/ /\ ~HasChar(entry.expression, ".")
       /\ ~HasChar(entry.expression, "(")
       /\ \A i \in 1..Len(columns) : columns[i].column_name # entry.expression

\* C32: validateAliasFirstSelect reports an empty alias map; it reports an
\* entry exactly when its alias or its expression is empty or whitespace
\* only, or its expression has neither "." nor "(" and is not a discovered
\* column name; an expression with "." or "(" is never reported for the
\* column it names.
C32_ProjectionRejections ==
    (args # NoRequest /\ args.fn = "validateAliasFirstSelect" /\ ret # NoRet) =>
        LET select == args.select
            errors == ret.value
            rejected == SelectSeq(select, LAMBDA en : EntryRejected(en, args.columns))
        IN /\ select = <<>> =>
                (Len(errors) = 1
                 /\ errors[1].message.text = "Select configuration cannot be empty")
           /\ select # <<>> =>
                /\ Len(errors) = Len(rejected)
                /\ \A i \in 1..Len(errors) :
                      /\ errors[i].type = "config"
                      /\ errors[i].details.alias = rejected[i].alias
                      /\ errors[i].details.expression = rejected[i].expression
           /\ \A i \in 1..Len(errors) :
                 errors[i].message.text = "Column ${expression} does not exist in table" =>
                    (/\ ~HasChar(errors[i].details.expression, ".")
                     /\ ~HasChar(errors[i].details.expression, "("))

\* A qualified expression naming no discovered column was accepted next to
\* an entry rejected for its unknown column.
C32_Witness ==
    /\ args # NoRequest
    /\ args.fn = "validateAliasFirstSelect"
    /\ ret # NoRet
    /\ Len(args.select) = 2
    /\ args.select[1].expression = <<"r",".","c">>
    /\ args.select[2].expression = <<"n","o","p","e">>
    /\ Len(ret.value) = 1
    /\ ret.value[1].details.alias = args.select[2].alias

----------------------------------------------------------------------------
(* Further claims about validateFilters (SpecRun, SpecValidate) *)

\* The structural match of a value with a type family.
StructurallyMatches(value, family) ==
    CASE family = "text" -> value.typeof = "string"
      [] family = "numeric" -> value.typeof = "number" /\ value.finite
      [] family = "boolean" -> value.typeof = "boolean"
      [] family = "temporal" -> value.class = "Date" \/ value.typeof = "string"
      [] family = "uuid" -> value.typeof = "string" /\ UuidTest(value.str)
      [] family = "json" -> value.typeof = "object" \/ value.typeof = "string"
      [] family = "array" -> value.class = "Array"
      [] family = "unknown" -> TRUE

\* The value-compatibility errors validateFilters produces for filter f.
ValueErrorsOf(f, columns) ==
    SelectSeq(validateFilters(<<f>>, columns),
              LAMBDA e : e.message.text =
                  "Filter value is not compatible with column type ${column.data_type}")

\* C33: for a filter on an existing column with an operator other than is,
\* a value that does not structurally match the column's family is a config
\* error and validation fails (with the value error when the operator is
\* compatible and nothing precedes it), and a matching value is no value
\* error; a filter with operator is never produces a value error, and is
\* still rejected for its operator where the table does not list the family.
C33_ValueMatchesUnlessIs ==
    (RestValidated /\ request.config.filters.defined) =>
        LET config == request.config
            columns == request.discovered.data.columns
            fs == config.filters.value
            clean == validateAliasFirstSelect(config.select.value, columns) = <<>>
        IN \A i \in 1..Len(fs), j \in 1..Len(SampleTypes) :
              fs[i].column = SampleTypes[j].column_name =>
                 LET f == fs[i]
                     family == SampleTypes[j].family
                     matches == StructurallyMatches(f.value, family)
                     listed == family \in OPERATOR_COMPATIBILITY[f.operator]
                     valueErrors == ValueErrorsOf(f, columns)
                 IN /\ (f.operator # "is" /\ ~matches) =>
                          /\ Len(valueErrors) = 1
                          /\ valueErrors[1].type = "config"
                          /\ valueErrors[1].details.value = f.value.typeof
                          /\ ~validation.success
                          /\ (i = 1 /\ clean /\ listed) =>
                                validation.error = valueErrors[1]
                    /\ (f.operator # "is" /\ matches) => valueErrors = <<>>
                    /\ f.operator = "is" =>
                          /\ valueErrors = <<>>
                          /\ (~listed) => ~validation.success
                          /\ (i = 1 /\ clean /\ ~listed) =>
                                validation.error.details.operator = "is"
                          /\ (Len(fs) = 1 /\ clean /\ listed /\ ~config.orderBy.defined
                                /\ validatePagination(config, request.mode) = <<>>
                                /\ ~RlsWithoutPolicies) =>
                                validation.success

\* An is filter with a string value on the numeric column passed validation.
C33_Witness ==
    /\ RestValidated
    /\ request.config.filters.defined
    /\ Len(request.config.filters.value) = 1
    /\ request.config.filters.value[1].operator = "is"
    /\ request.config.filters.value[1].column = <<"n","u">>
    /\ request.config.filters.value[1].value.typeof = "string"
    /\ validation.success

\* An eq filter with a string value on the numeric column was rejected for
\* its value.
C33_WitnessRejected ==
    /\ RestValidated
    /\ request.config.filters.defined
    /\ Len(request.config.filters.value) = 1
    /\ request.config.filters.value[1].operator = "eq"
    /\ request.config.filters.value[1].column = <<"n","u">>
    /\ request.config.filters.value[1].value.typeof = "string"
    /\ ~validation.success
    /\ validation.error.message.text =
          "Filter value is not compatible with column type ${column.data_type}"
    /\ validation.error.details.value = "string"


\* C34: a rest config whose only filter is an in filter with a list value,
\* on a column of a family the table lists for in (text, numeric, boolean,
\* temporal, uuid), passes validation when nothing else is wrong with it.
C34_InListAccepted ==
    (/\ RestValidated
     /\ request.config.filters.defined
     /\ Len(request.config.filters.value) = 1
     /\ request.config.filters.value[1].operator = "in"
     /\ request.config.filters.value[1].value.class = "Array"
     /\ \E j \in 1..Len(SampleTypes) :
           /\ SampleTypes[j].column_name = request.config.filters.value[1].column
           /\ SampleTypes[j].family \in OPERATOR_COMPATIBILITY["in"]
     /\ validateAliasFirstSelect(request.config.select.value,
                                 request.discovered.data.columns) = <<>>
     /\ ~request.config.orderBy.defined
     /\ validatePagination(request.config, request.mode) = <<>>
     /\ ~RlsWithoutPolicies)
        => validation.success

----------------------------------------------------------------------------
(* Further claims about the DiscoveryCache class (SpecCache) *)

\* C35: a set(k, v) on a key k that is in the cache leaves every other key
\* that was in the cache in it, also when the cache is at capacity.
C35_OverwriteKeepsOthers ==
    [][ \A k \in CacheKeys, d \in CacheData :
          (/\ MapHas(cache, k)
           /\ nsets' = nsets + 1
           /\ cache' = DiscoveryCache_set(cache, k, d, now))
            => MapKeys(cache) \subseteq MapKeys(cache') ]_vars

----------------------------------------------------------------------------
(* Further claims about discovery under concurrent callers (Spec) *)

\* C36: a discoverTableMetadata or listAvailableTables call that was
\* awaiting its backend fetches when clearDiscoveryCache() ran does not
\* store its result when it returns: the cache is as it was before the
\* return.
C36_NoStoreAfterClear ==
    [][ \A p \in Procs :
          (p \in stale /\ pc[p] # "idle" /\ pc'[p] = "idle") => cache' = cache ]_vars

----------------------------------------------------------------------------
(* Claims about validateQueryConfigs (SpecBatch) *)

\* The validations of the batch that failed, by index.
FailedInBatch == { i \in 1..Len(batch.results) : ~batch.results[i].success }

\* C37: validateQueryConfigs starts the validation of every config at its
\* call and returns only when all have resolved; it returns the error of the
\* failed validation with the lowest index, in whatever order they resolved,
\* and when none failed the metadata of all in the order of the configs.
C37_BatchLowestIndexFirst ==
    /\ (batch # NoRequest /\ batch.stage # "called") =>
          Len(batch.results) = Len(batch.configs)
    /\ (batch # NoRequest /\ batch.stage = "returned") =>
          /\ Settled(batch.results)
          /\ \A i \in 1..Len(batch.configs) :
                \/ batch.results[i] =
                      ValidateEntry(batch.configs[i], batch.mode).returned
                \/ \E d \in DiscoveryOutcomes(batch.configs[i].from) :
                      batch.results[i] =
                         ValidateFinish(batch.configs[i], batch.mode, d)
          /\ FailedInBatch # {} =>
                LET first == CHOOSE i \in FailedInBatch : \A j \in FailedInBatch : i <= j
                IN /\ ~batch.returned.success
                   /\ batch.returned.error = batch.results[first].error
          /\ FailedInBatch = {} =>
                /\ batch.returned.success
                /\ Len(batch.returned.data) = Len(batch.configs)
                /\ \A i \in 1..Len(batch.configs) :
                      batch.returned.data[i] = batch.results[i].data

\* Two validations failed with different errors, the second resolved first,
\* and the error of the first was returned.
C37_Witness ==
    /\ batch # NoRequest
    /\ batch.stage = "returned"
    /\ Len(batch.configs) = 2
    /\ batch.order = <<2, 1>>
    /\ FailedInBatch = {1, 2}
    /\ batch.results[1].error # batch.results[2].error
    /\ batch.returned.error = batch.results[1].error

\* Two validations passed, the second resolved first, and the metadata came
\* back in the order of the configs.
C37_WitnessSuccess ==
    /\ batch # NoRequest
    /\ batch.stage = "returned"
    /\ Len(batch.configs) = 2
    /\ batch.order = <<2, 1>>
    /\ batch.returned.success
    /\ batch.returned.data = <<batch.results[1].data, batch.results[2].data>>
====
